---- MODULE Spec2Model ----
(***************************************************************************)
(* Flow Recorder: the playback controller of the background service       *)
(* worker (src/src/background/service-worker.ts), specification Spec, and  *)
(* the recording capturer of the content script (the recorder module,      *)
(* src/unnamed/part_000 lines 193-474), specification RecSpec.  BgSpec is  *)
(* the recording accumulator of the service worker, ResolverSpec the       *)
(* selector generator (src/src/utils/selectors.ts) with the element        *)
(* resolver of the player (src/src/content/player.ts lines 368-832), and   *)
(* AgentSpec the executeStep of that player.  StorageSpec is the flow      *)
(* store (src/src/utils/storage.ts) under concurrent saveFlow and          *)
(* deleteFlow calls, and ImportSpec the export and import of flows         *)
(* (src/src/utils/export.ts) as the editor drives them.                    *)
(*                                                                         *)
(* The service worker is a single-threaded event loop.  Every action of    *)
(* this module is one run-to-completion slice of it: the synchronous code  *)
(* between two suspension points (an await, a timer, a listener).  The     *)
(* pending continuations are kept in the bag `tasks`; each one carries the *)
(* values its closure captured (the flow, the step it read).               *)
(***************************************************************************)
EXTENDS Integers, Sequences, FiniteSets, Bags, TLC

(***************************************************************************)
(* Bounds of the model.                                                    *)
(***************************************************************************)
\* continuations pending at the same time (timers, listeners, awaits)
MaxTasks == 2
\* the recorder's clock runs from 0 to MaxNow
MaxNow == 1
\* user events are looked at while the recording holds fewer steps than this
MaxSteps == 1

(***************************************************************************)
(* Program constants.                                                      *)
(***************************************************************************)
\* sendMessageWithRetry(tab.id, {EXECUTE_STEP}, 3, 1000)
maxRetries == 3

(***************************************************************************)
(* Data: RecordedStep and Flow (types/index.ts), reduced to the fields the *)
(* controller reads: type, url, delay.                                     *)
(***************************************************************************)
RecordedStep(type, url, delay) == [type |-> type, url |-> url, delay |-> delay]

\* The flows held by storage (getFlows); playback never writes them.
storedFlows ==
  [A |-> <<RecordedStep("click", "", 0),
           RecordedStep("navigation", "", 400),
           RecordedStep("navigation", "/next", 2000)>>,
   B |-> <<RecordedStep("input", "", 0)>>]

FlowIds == DOMAIN storedFlows

\* ids a START_PLAYBACK message may carry: the stored ones and an unknown one
RequestedIds == FlowIds \cup {"Z"}

NoFlow == "null"

\* flows.find((f) => f.id === flowId) succeeds
FlowFound(flowId) == flowId \in FlowIds

\* flow.steps[i] with JavaScript's 0-based index; HasStep is `!!step`
HasStep(flowId, i) == i >= 0 /\ i < Len(storedFlows[flowId])
StepAt(flowId, i) == storedFlows[flowId][i + 1]

\* step.type === 'navigation' && step.url
IsControllerNavigation(step) == step.type = "navigation" /\ step.url # ""

(***************************************************************************)
(* The initial PlaybackState and its options.                              *)
(***************************************************************************)
DefaultOptions ==
  [speed |-> 1, stepByStep |-> FALSE, stopOnError |-> TRUE, highlightElements |-> TRUE]

\* payloads of SET_PLAYBACK_OPTIONS: Partial<PlaybackOptions>; the speeds are two
\* of those the speed selector of PlaybackControls offers
OptionPayloads ==
  {[stopOnError |-> TRUE], [stopOnError |-> FALSE],
   [stepByStep |-> TRUE], [stepByStep |-> FALSE],
   [speed |-> 1], [speed |-> 2]}

\* a merge that starts from the initial options instead of the current ones
MergeOptions_fromDefaults(options, payload) ==
  [k \in DOMAIN options |-> IF k \in DOMAIN payload THEN payload[k] ELSE DefaultOptions[k]]

\* { ...playbackState.options, ...payload }
MergeOptions(options, payload) ==
  [k \in DOMAIN options |-> IF k \in DOMAIN payload THEN payload[k] ELSE options[k]]

VARIABLES
  playbackState,  \* the process-wide PlaybackState
  tasks,          \* bag of pending continuations
  dispatched,     \* history: the indices of the steps sent or navigated to since
                  \* the last start, up to and including the first one out of order
  session,        \* history: the flow last started and why its session went Idle
  flags,          \* history: what happened to the session since its start
  pageReady       \* history: the start-up wait of the session found the tab
                  \* complete and the content script loaded

\* The recorder of the content script, the page it runs in, and the steps the
\* background keeps for the recording (recordingState.steps).
VARIABLES
  isRecording,          \* the recorder's isRecording
  lastEventTime,        \* the recorder's lastEventTime
  inputDebounceTimers,  \* the keys of the Map, in insertion order
  scrollTimeout,        \* scrollTimeout is not null
  lastScrollPosition,   \* the recorder's lastScrollPosition
  timers,               \* bag of the targets of the timers the page has pending
  now,                  \* Date.now()
  value,                \* the value of each text control
  scroll,               \* window.scrollX, window.scrollY
  recorded,             \* the steps of the recording, in order
  cleared,              \* history: the timers the last stopRecording cleared
  burst                 \* history: the control whose debounce timer was set last,
                        \* and how many input events in a row have set it (up to 2)

\* The recording accumulator of the service worker and the calls of
\* startRecording and stopRecording that are suspended at an await.
VARIABLES
  recordingState,  \* the process-wide RecordingState
  bgTasks,         \* bag of the pending continuations of startRecording / stopRecording
  savedFlow        \* history: the flow the last saveFlow wrote to storage

playbackVars == <<playbackState, tasks, dispatched, session, flags, pageReady>>
recorderVars == <<isRecording, lastEventTime, inputDebounceTimers, scrollTimeout,
                  lastScrollPosition, timers, now, value, scroll, recorded, cleared,
                  burst>>

\* The playback agent of the content script (content/player.ts, the later
\* version, lines 368-832) and the page it runs in.
VARIABLES
  page,      \* the document of the tab, by its name in Documents
  selector,  \* the ElementSelector last generated or received
  origin,    \* history: the page and the element the selector was generated for
  found,     \* what the last findElement returned
  exec,      \* the executeStep call under way
  events,    \* what executeStep has done to the document, in order
  response   \* how the last executeStep ended

\* The flows of chrome.storage.local, the calls of saveFlow and deleteFlow that
\* are suspended at an await, and the import of the editor.
VARIABLES
  storage,    \* the value of the key `flows`
  calls,      \* bag of the pending continuations of saveFlow / deleteFlow
  time,       \* Date.now()
  log,        \* history: for each flow id, the call on it that returned last
  importing   \* the handleImport under way, or how the last one ended

backgroundVars == <<recordingState, bgTasks, savedFlow>>
storageVars == <<storage, calls, time, log, importing>>
agentVars == <<page, selector, origin, found, exec, events, response>>

\* what an action of one component leaves alone: the state of the others
exceptPlayback == <<recorderVars, backgroundVars, agentVars, storageVars>>
exceptRecorder == <<playbackVars, backgroundVars, agentVars, storageVars>>
exceptBackground == <<playbackVars, recorderVars, agentVars, storageVars>>
exceptAgent == <<playbackVars, recorderVars, backgroundVars, storageVars>>
exceptStorage == <<playbackVars, recorderVars, backgroundVars, agentVars>>

vars == <<playbackVars, recorderVars, backgroundVars, agentVars, storageVars>>

(***************************************************************************)
(* Pending continuations.  pc is the suspension point:                     *)
(*   startListen startPlayback's tabs.onUpdated listener, and the          *)
(*               waitForPageReady it calls                                 *)
(*   timer       setTimeout(() => executeNextStep(flow), ...)              *)
(*   resume      RESUME_PLAYBACK awaiting getFlows                         *)
(*   getTab      executeNextStep awaiting getActiveTab (step already read) *)
(*   send        executeNextStep awaiting sendMessageWithRetry             *)
(*   navListen   executeNextStep's tabs.onUpdated listener, and the        *)
(*               waitForPageReady it calls                                 *)
(* An await that neither reads nor writes playbackState is taken together  *)
(* with the slice that follows it: getActiveTab and tabs.update in         *)
(* startPlayback, waitForPageReady after the listener fired, the retries   *)
(* inside sendMessageWithRetry.                                            *)
(* flow is the flow the closure captured, idx the index of the step the    *)
(* invocation read, delay the milliseconds a timer was set to.             *)
(***************************************************************************)
Task(pc, flow, idx) == [pc |-> pc, flow |-> flow, idx |-> idx, delay |-> 0]

\* setTimeout(() => executeNextStep(flow), delay)
Timer(flow, delay) == [Task("timer", flow, 0) EXCEPT !.delay = delay]

\* a step whose executeNextStep invocation has passed the entry guard
UnderWayPcs == {"getTab", "send", "navListen"}
\* a step that was sent to the page agent or navigated to and has not settled
InFlightPcs == {"send", "navListen"}

RECURSIVE SumCopies(_, _)
SumCopies(S, B) ==
  IF S = {} THEN 0
  ELSE LET t == CHOOSE x \in S : TRUE
       IN CopiesIn(t, B) + SumCopies(S \ {t}, B)

Replace(t, new) == (tasks (-) SetToBag({t})) (+) SetToBag({new})
Remove(t) == tasks (-) SetToBag({t})

(***************************************************************************)
(* Pure parts of the controller.                                           *)
(***************************************************************************)
\* stopPlayback: the assignment to playbackState
stopPlayback(ps) ==
  [ps EXCEPT !.isPlaying = FALSE, !.isPaused = FALSE,
             !.currentFlowId = NoFlow, !.currentStepIndex = 0]

\* startPlayback: the assignment to playbackState
startedState(ps, flowId) ==
  [isPlaying |-> TRUE, isPaused |-> FALSE, currentFlowId |-> flowId,
   currentStepIndex |-> 0, options |-> ps.options]

\* a guard that forgets the pause
executeNextStepGuard_ignoresPause(ps) == ps.isPlaying

\* executeNextStep: `if (!playbackState.isPlaying || playbackState.isPaused) return`
executeNextStepGuard(ps) == ps.isPlaying /\ ~ps.isPaused

\* a continuation that forgets the increment
advanced_forgets(ps) == ps

\* playbackState.currentStepIndex++
advanced(ps) == [ps EXCEPT !.currentStepIndex = @ + 1]

Max(a, b) == IF a >= b THEN a ELSE b

\* `(flow.steps[i]?.delay || 500) / speed`: a missing step and a delay of 0 both
\* give 500.  The delays and speeds of this model divide without remainder.
pacedDelay(flowId, i, speed) ==
  (IF HasStep(flowId, i) /\ StepAt(flowId, i).delay # 0
     THEN StepAt(flowId, i).delay ELSE 500) \div speed

\* the delay of the timer executeNextStep sets once step i - 1 has settled:
\* Math.max(delay, 300) after EXECUTE_STEP was answered, 500 in the catch branch,
\* Math.max(delay, 1000) after a navigation
\* a timer set to the paced delay with no lower limit
delayAfterSend_noFloor(result, flowId, i, speed) ==
  IF result = "throw" THEN 500 ELSE pacedDelay(flowId, i, speed)

delayAfterSend(result, flowId, i, speed) ==
  IF result = "throw" THEN 500 ELSE Max(pacedDelay(flowId, i, speed), 300)
delayAfterNavigation(flowId, i, speed) == Max(pacedDelay(flowId, i, speed), 1000)

\* ensureContentScriptLoaded: true when the PING is answered, else whether the
\* injection succeeded
ensureContentScriptLoaded(pingAnswered, injected) ==
  IF pingAnswered THEN TRUE ELSE injected

\* waitForPageReady: true as soon as the tab is seen complete within the timeout;
\* the value of ensureContentScriptLoaded is awaited and dropped
waitForPageReady(tabComplete, pingAnswered, injected) ==
  IF tabComplete
    THEN LET loaded == ensureContentScriptLoaded(pingAnswered, injected) IN TRUE
    ELSE FALSE

\* what one chrome.tabs.sendMessage attempt can do: a response with success true,
\* a response with success false, or a rejection
AttemptResults == {"ok", "fail", "throw"}

\* sendMessageWithRetry: attempts[i] is what attempt i does
RECURSIVE sendMessageWithRetry(_, _)
sendMessageWithRetry(attempts, attempt) ==
  IF attempt > maxRetries THEN "ok"
  ELSE IF attempts[attempt] # "throw" THEN attempts[attempt]
  ELSE IF attempt < maxRetries THEN sendMessageWithRetry(attempts, attempt + 1)
  ELSE "throw"

\* a continuation that does not look at response.success
afterStep_ignoresFailure(result, options) ==
  IF result = "throw" /\ options.stopOnError THEN "stop" ELSE "advance"

\* a catch branch that stops whatever stopOnError says
afterStep_throwIsFatal(result, options) ==
  IF result = "throw"
    THEN "stop"
    ELSE IF result = "fail" /\ options.stopOnError THEN "stop" ELSE "advance"

\* every way sendMessageWithRetry can settle
SendResults == {sendMessageWithRetry(attempts, 1) : attempts \in [1..maxRetries -> AttemptResults]}

\* every way waitForPageReady can settle: its value, and what the
\* ensureContentScriptLoaded it called had found (FALSE when it was not called)
PageReadyResults ==
  {[ready |-> waitForPageReady(tabComplete, pingAnswered, injected),
    loaded |-> tabComplete /\ ensureContentScriptLoaded(pingAnswered, injected)] :
     tabComplete \in BOOLEAN, pingAnswered \in BOOLEAN, injected \in BOOLEAN}

\* executeNextStep after sendMessageWithRetry settled: "stop" or "advance"
afterStep(result, options) ==
  IF result = "throw"
    THEN (IF options.stopOnError THEN "stop" ELSE "advance")
    ELSE IF result = "fail" /\ options.stopOnError THEN "stop" ELSE "advance"

(***************************************************************************)
(* History bookkeeping.                                                    *)
(***************************************************************************)
\* session.why: none (still playing, or never started), complete (index past the
\* end), halted (a step failed under stopOnError), aborted (no tab, page not
\* ready), stopped (STOP_PLAYBACK); session.at: the step index at which it
\* completed or halted; session.stoppedBefore: the flow of the session that
\* STOP_PLAYBACK had ended when this one started with continuations pending
NoSession == [flow |-> NoFlow, why |-> "none", at |-> 0, stoppedBefore |-> NoFlow]
Ends(why, at) ==
  session' = IF playbackState.isPlaying THEN [session EXCEPT !.why = why, !.at = at]
             ELSE session

\* flags: stale (the session started while continuations of an earlier one were
\* pending), resume (a RESUME_PLAYBACK was handled), fail (a step's delivery or
\* execution failed), throw (the delivery of a step was rejected on every
\* attempt).  The history of a stale session is not recorded further.
Stale == "stale" \in flags
NotesAll(fs) ==
  flags' = IF playbackState.isPlaying /\ ~Stale THEN flags \cup fs ELSE flags
Notes(flag) == NotesAll({flag})

\* the steps dispatched so far are steps 0, 1, 2, ... of the flow
InOrder == \A i \in 1..Len(dispatched) : dispatched[i] = i - 1
Records(i) ==
  dispatched' = IF ~Stale /\ InOrder THEN Append(dispatched, i) ELSE dispatched

\* the service worker has just been loaded
PlaybackIdle ==
  /\ playbackState = [isPlaying |-> FALSE, isPaused |-> FALSE, currentFlowId |-> NoFlow,
                      currentStepIndex |-> 0, options |-> DefaultOptions]
  /\ tasks = EmptyBag
  /\ dispatched = <<>>
  /\ session = NoSession
  /\ flags = {}
  /\ pageReady = FALSE

\* the content script has just been loaded into a page whose controls hold the
\* values v and which is scrolled to pos
RecorderLoaded(v, pos) ==
  /\ isRecording = FALSE
  /\ lastEventTime = 0
  /\ inputDebounceTimers = <<>>
  /\ scrollTimeout = FALSE
  /\ lastScrollPosition = [x |-> 0, y |-> 0]
  /\ timers = EmptyBag
  /\ now = 0
  /\ value = v
  /\ scroll = pos
  /\ recorded = <<>>
  /\ cleared = 0
  /\ burst = [target |-> "none", n |-> 0]

NoUrl == "null"

\* let recordingState = { isRecording: false, currentFlowId: null, steps: [], startUrl: null }
EmptyRecording ==
  [isRecording |-> FALSE, currentFlowId |-> NoFlow, steps |-> <<>>, startUrl |-> NoUrl]

\* the service worker has just been loaded: nothing is being recorded
RecordingIdle ==
  /\ recordingState = EmptyRecording
  /\ bgTasks = EmptyBag
  /\ savedFlow = [id |-> NoFlow, steps |-> <<>>, written |-> FALSE]

(***************************************************************************)
(* Data: ElementSelector (types/index.ts).  A string is a sequence of      *)
(* characters; a css or xpath string is kept as what it parses to.  An     *)
(* attribute that has no entry, and a text that is undefined, are the      *)
(* empty string: no entry and no text is ever stored empty.                *)
(***************************************************************************)
Css(kind, tag, v, segs) == [kind |-> kind, tag |-> tag, v |-> v, segs |-> segs]
XPath(kind, v, segs) == [kind |-> kind, v |-> v, segs |-> segs]

\* css: '' and xpath: ''
NoCss == Css("empty", "", <<>>, <<>>)
NoXPath == XPath("empty", <<>>, <<>>)

\* the attributes of an element that the model keeps
AttributeNames == {"id", "name", "placeholder", "aria-label", "data-testid", "role"}
NoAttributes == [a \in AttributeNames |-> <<>>]

ElementSelector(css, xpath, text, tagName, attributes, hostPath) ==
  [css |-> css, xpath |-> xpath, text |-> text, tagName |-> tagName,
   attributes |-> attributes, hostPath |-> hostPath]

\* the target the editor gives a wait step
WaitTarget == ElementSelector(NoCss, NoXPath, <<>>, "wait", NoAttributes, <<>>)

\* null, and an exception, where an element is expected
Null == 0
Thrown == -1

\* no executeStep is under way
NoExec == [pc |-> "idle", type |-> "none", delay |-> 0, attempt |-> 0, element |-> Null]

\* the content script has just been loaded into the page
AgentLoaded(p) ==
  /\ page = p
  /\ selector = WaitTarget
  /\ origin = [page |-> p, element |-> Null]
  /\ found = [ran |-> FALSE, element |-> Null]
  /\ exec = NoExec
  /\ events = <<>>
  /\ response = "none"

\* Date.now() and the values Math.random() is seen to take
MaxTime == 1
MaxRandom == 4
Times == 0..MaxTime
Randoms == 1..MaxRandom

\* generateId: `${Date.now()}-${Math.random().toString(36).substring(2, 11)}`
generateId(t, random) == <<t, random>>
Ids == {generateId(t, random) : t \in Times, random \in Randoms}

\* no import has been made: file is the parsed content of the file picked,
\* source the flows it was exported from, at the time of the import, before
\* the stored flows at that time, flows the flows left to save, made the
\* flows importFlow resolved with, saves the saveFlow calls made
NoImport ==
  [pc |-> "idle", file |-> [shape |-> "undefined"], source |-> <<>>, at |-> 0,
   before |-> <<>>, result |-> "none", flows |-> <<>>, made |-> <<>>, saves |-> 0]

\* the extension pages have just been opened on the stored flows fs
StorageLoaded(fs) ==
  /\ storage = fs
  /\ calls = EmptyBag
  /\ time = 0
  /\ log = [id \in Ids |-> "none"]
  /\ importing = NoImport

Init ==
  /\ PlaybackIdle
  /\ RecorderLoaded([e \in {"e1", "e2"} |-> ""], [x |-> 0, y |-> 0])
  /\ RecordingIdle
  /\ StorageLoaded(<<>>)
  /\ AgentLoaded("plain")

(***************************************************************************)
(* Message handlers.                                                       *)
(***************************************************************************)
\* START_PLAYBACK: startPlayback.  An unknown id returns without touching
\* anything; with an active tab the tab is navigated to flow.startUrl and the
\* listener registered, without one only playbackState is set.
StartPlayback(flowId, hasTab) ==
  /\ BagCardinality(tasks) < MaxTasks
  /\ IF FlowFound(flowId)
       THEN /\ playbackState' = startedState(playbackState, flowId)
            /\ tasks' = IF hasTab
                          THEN tasks (+) SetToBag({Task("startListen", flowId, 0)})
                          ELSE tasks
            /\ dispatched' = <<>>
            /\ session' = [flow |-> flowId, why |-> "none", at |-> 0,
                            stoppedBefore |->
                              IF session.why = "stopped" /\ tasks # EmptyBag
                                 /\ session.flow # flowId
                                THEN session.flow ELSE NoFlow]
            /\ flags' = IF tasks = EmptyBag THEN {} ELSE {"stale"}
            /\ pageReady' = FALSE
       ELSE UNCHANGED playbackVars

\* STOP_PLAYBACK
StopPlayback ==
  /\ playbackState' = stopPlayback(playbackState)
  /\ Ends("stopped", 0)
  /\ UNCHANGED <<tasks, dispatched, flags, pageReady>>

\* PAUSE_PLAYBACK
PausePlayback ==
  /\ playbackState' = [playbackState EXCEPT !.isPaused = TRUE]
  /\ UNCHANGED <<tasks, dispatched, session, flags, pageReady>>

\* RESUME_PLAYBACK up to `await getFlows()`
ResumePlayback ==
  /\ BagCardinality(tasks) < MaxTasks
  /\ playbackState' = [playbackState EXCEPT !.isPaused = FALSE]
  /\ tasks' = IF playbackState.currentFlowId # NoFlow
                THEN tasks (+) SetToBag({Task("resume", NoFlow, 0)})
                ELSE tasks
  /\ Notes("resume")
  /\ UNCHANGED <<dispatched, session, pageReady>>

\* SET_PLAYBACK_OPTIONS
SetPlaybackOptions(payload) ==
  /\ playbackState' = [playbackState EXCEPT !.options = MergeOptions(@, payload)]
  /\ UNCHANGED <<tasks, dispatched, session, flags, pageReady>>

(***************************************************************************)
(* startPlayback after its awaits.                                         *)
(***************************************************************************)
\* tabs.onUpdated reports status complete for the tab: the listener removes
\* itself and calls waitForPageReady; then the .then of startPlayback
StartPageReady(t) ==
  /\ t.pc = "startListen"
  /\ \E r \in PageReadyResults :
       IF r.ready
         THEN /\ tasks' = Replace(t, Timer(t.flow, 1000))
              /\ pageReady' = IF Stale THEN pageReady ELSE r.loaded
              /\ UNCHANGED <<playbackState, session>>
         ELSE /\ playbackState' = stopPlayback(playbackState)
              /\ tasks' = Remove(t)
              /\ Ends("aborted", 0)
              /\ UNCHANGED pageReady
  /\ UNCHANGED <<dispatched, flags>>

(***************************************************************************)
(* executeNextStep.                                                        *)
(***************************************************************************)
\* executeNextStep(flow) from its entry to `await getActiveTab()`, run by the
\* continuation t
Enter(t, flow) ==
  IF ~executeNextStepGuard(playbackState)
    THEN /\ tasks' = Remove(t)
         /\ UNCHANGED <<playbackState, session>>
    ELSE IF ~HasStep(flow, playbackState.currentStepIndex)
      THEN /\ playbackState' = stopPlayback(playbackState)
           /\ tasks' = Remove(t)
           /\ Ends("complete", playbackState.currentStepIndex)
      ELSE /\ tasks' = Replace(t, Task("getTab", flow, playbackState.currentStepIndex))
           /\ UNCHANGED <<playbackState, session>>

\* a timer set by startPlayback or executeNextStep fires
TimerFires(t) ==
  /\ t.pc = "timer"
  /\ Enter(t, t.flow)
  /\ UNCHANGED <<dispatched, flags, pageReady>>

\* RESUME_PLAYBACK after getFlows: currentFlowId is read again
ResumeContinues(t) ==
  /\ t.pc = "resume"
  /\ IF FlowFound(playbackState.currentFlowId)
       THEN Enter(t, playbackState.currentFlowId)
       ELSE /\ tasks' = Remove(t)
            /\ UNCHANGED <<playbackState, session>>
  /\ UNCHANGED <<dispatched, flags, pageReady>>

\* getActiveTab settles: no tab stops playback; a navigation step with a url
\* navigates the tab and registers the listener; any other step is sent to the
\* page agent as EXECUTE_STEP
ActiveTabResolved(t) ==
  /\ t.pc = "getTab"
  /\ \E hasTab \in BOOLEAN :
       IF ~hasTab
         THEN /\ playbackState' = stopPlayback(playbackState)
              /\ tasks' = Remove(t)
              /\ Ends("aborted", 0)
              /\ UNCHANGED dispatched
         ELSE /\ tasks' = Replace(t, [t EXCEPT !.pc =
                   IF IsControllerNavigation(StepAt(t.flow, t.idx)) THEN "navListen" ELSE "send"])
              /\ Records(t.idx)
              /\ UNCHANGED <<playbackState, session>>
  /\ UNCHANGED <<flags, pageReady>>

\* sendMessageWithRetry settles and executeNextStep runs to its end
StepSettled(t) ==
  /\ t.pc = "send"
  /\ \E result \in SendResults :
       /\ IF afterStep(result, playbackState.options) = "stop"
            THEN /\ playbackState' = stopPlayback(playbackState)
                 /\ tasks' = Remove(t)
                 /\ Ends("halted", t.idx)
            ELSE /\ playbackState' = advanced(playbackState)
                 /\ tasks' = Replace(t, Timer(t.flow,
                               delayAfterSend(result, t.flow, playbackState'.currentStepIndex,
                                              playbackState.options.speed)))
                 /\ UNCHANGED session
       /\ IF result = "ok" THEN UNCHANGED flags
          ELSE NotesAll(IF result = "throw" THEN {"fail", "throw"} ELSE {"fail"})
  /\ UNCHANGED <<dispatched, pageReady>>

\* tabs.onUpdated reports status complete after a navigation step: the
\* listener removes itself and calls waitForPageReady; then its .then
NavPageReady(t) ==
  /\ t.pc = "navListen"
  /\ \E r \in PageReadyResults :
       IF r.ready
         THEN /\ playbackState' = advanced(playbackState)
              /\ tasks' = Replace(t, Timer(t.flow,
                            delayAfterNavigation(t.flow, playbackState'.currentStepIndex,
                                                 playbackState.options.speed)))
              /\ UNCHANGED <<session, flags>>
         ELSE /\ playbackState' = stopPlayback(playbackState)
              /\ tasks' = Remove(t)
              /\ Ends("aborted", 0)
              /\ UNCHANGED flags
  /\ UNCHANGED <<dispatched, pageReady>>

Next ==
  \/ /\ \E flowId \in RequestedIds, hasTab \in BOOLEAN : StartPlayback(flowId, hasTab)
     /\ UNCHANGED exceptPlayback
  \/ StopPlayback /\ UNCHANGED exceptPlayback
  \/ PausePlayback /\ UNCHANGED exceptPlayback
  \/ ResumePlayback /\ UNCHANGED exceptPlayback
  \/ /\ \E payload \in OptionPayloads : SetPlaybackOptions(payload)
     /\ UNCHANGED exceptPlayback
  \/ /\ \E t \in BagToSet(tasks) : StartPageReady(t)
     /\ UNCHANGED exceptPlayback
  \/ /\ \E t \in BagToSet(tasks) : TimerFires(t)
     /\ UNCHANGED exceptPlayback
  \/ /\ \E t \in BagToSet(tasks) : ResumeContinues(t)
     /\ UNCHANGED exceptPlayback
  \/ /\ \E t \in BagToSet(tasks) : ActiveTabResolved(t)
     /\ UNCHANGED exceptPlayback
  \/ /\ \E t \in BagToSet(tasks) : StepSettled(t)
     /\ UNCHANGED exceptPlayback
  \/ /\ \E t \in BagToSet(tasks) : NavPageReady(t)
     /\ UNCHANGED exceptPlayback

Spec == Init /\ [][Next]_vars

TypeOK ==
  /\ playbackState.isPlaying \in BOOLEAN
  /\ playbackState.isPaused \in BOOLEAN
  /\ playbackState.currentFlowId \in FlowIds \cup {NoFlow}
  /\ playbackState.currentStepIndex \in Nat
  /\ BagCardinality(tasks) <= MaxTasks
  /\ pageReady \in BOOLEAN

(***************************************************************************)
(* Vocabulary of the properties.                                           *)
(***************************************************************************)
\* the number of continuations of B whose pc is in pcs
CountIn(B, pcs) == SumCopies({t \in BagToSet(B) : t.pc \in pcs}, B)

\* the session is driven by one stepping chain: it started with no continuation
\* of an earlier session pending, and no RESUME_PLAYBACK was handled in it
SingleChain == ~Stale /\ "resume" \notin flags

SessionSteps == IF session.flow = NoFlow THEN 0 ELSE Len(storedFlows[session.flow])

\* u is an invocation of executeNextStep that this step lets past its entry check
PassesEntry(u) == u.pc = "getTab" /\ CopiesIn(u, tasks') > CopiesIn(u, tasks)

\* this step handles the first failed step of the session
FirstFailureHandled == "fail" \notin flags /\ "fail" \in flags'

\* this step runs the entry of executeNextStep: a timer or a resumed handler
\* is consumed
EntryRuns == CountIn(tasks', {"timer", "resume"}) < CountIn(tasks, {"timer", "resume"})
\* this step lets an invocation of executeNextStep past its entry check
EntryPassed == CountIn(tasks', {"getTab"}) > CountIn(tasks, {"getTab"})
\* this step sends a step to the page agent or navigates to one
StepStarted == CountIn(tasks', InFlightPcs) > CountIn(tasks, InFlightPcs)

(***************************************************************************)
(* C1.  At most one step is in flight at any time: no step is sent to the  *)
(* page agent or navigated to while an earlier one has not settled, under  *)
(* every interleaving of start, pause, resume and stop requests.           *)
(* Violated: RESUME_PLAYBACK calls executeNextStep whatever is pending.    *)
(***************************************************************************)
C1_OneStepInFlight == CountIn(tasks, InFlightPcs) <= 1

(***************************************************************************)
(* C2.  With stopOnError set, when a step fails playback goes Idle in the  *)
(* same slice, and in a session driven by one stepping chain that halted   *)
(* at step k the steps dispatched are exactly 0..k: none beyond k, ever.   *)
(***************************************************************************)
C2_HaltsOnFailure ==
  [][(FirstFailureHandled /\ playbackState.options.stopOnError)
       => (~playbackState'.isPlaying /\ ~EntryPassed /\ CountIn(tasks', {"timer"}) = CountIn(tasks, {"timer"}))]_vars

C2_NothingAfterFailure ==
  (session.why = "halted" /\ SingleChain)
    => /\ ~playbackState.isPlaying
       /\ InOrder
       /\ Len(dispatched) = session.at + 1

C3_AdvancesPastFailure ==
  [][(FirstFailureHandled /\ ~playbackState.options.stopOnError)
       => /\ playbackState'.isPlaying
          /\ playbackState'.currentStepIndex = playbackState.currentStepIndex + 1
          /\ CountIn(tasks', {"timer"}) = CountIn(tasks, {"timer"}) + 1]_vars

C3_AllAttempted ==
  ("fail" \in flags /\ SingleChain)
    => /\ InOrder
       /\ session.why = "complete" => Len(dispatched) = SessionSteps

C4_NoStepAfterStop ==
  [][\A u \in BagToSet(tasks') : PassesEntry(u) => u.flow # session.stoppedBefore]_vars

(***************************************************************************)
(* C5.  A START_PLAYBACK for flow B while flow A plays supersedes A: from  *)
(* then on no invocation of executeNextStep for A gets past its entry, so  *)
(* no step of A is dispatched and one chain alone advances the index.      *)
(* Violated: A's pending timer runs executeNextStep(A) in B's session.     *)
(***************************************************************************)
C5_Superseded ==
  [][\A u \in BagToSet(tasks') : PassesEntry(u) => u.flow = playbackState.currentFlowId]_vars

(***************************************************************************)
(* C6.  As claimed: while isPaused holds no step is sent or navigated to.  *)
(* Violated: an invocation that passed its entry check before the pause    *)
(* still sends its step after `await getActiveTab()`.                      *)
(***************************************************************************)
C6_NoStepWhilePaused == [][playbackState.isPaused => ~StepStarted]_vars

(***************************************************************************)
(* C6, amended.  While paused or not playing, every invocation of          *)
(* executeNextStep is a no-op: it leaves playbackState unchanged and       *)
(* does not get past its entry check.  A step sent during the pause is one *)
(* whose invocation had passed the check before.                           *)
(***************************************************************************)
C6_PausedEntryIsNoOp ==
  [][(playbackState.isPaused \/ ~playbackState.isPlaying)
       => /\ ~EntryPassed
          /\ EntryRuns => playbackState' = playbackState
          /\ StepStarted => CountIn(tasks', {"getTab"}) < CountIn(tasks, {"getTab"})]_vars

\* the stepping chain of a paused session has run into the entry check and ended
C6_Witness ==
  /\ playbackState.isPlaying
  /\ playbackState.isPaused
  /\ tasks = EmptyBag
  /\ Len(dispatched) >= 1

(***************************************************************************)
(* C7.  Pause and resume neither skip nor repeat steps: in a session whose *)
(* steps all succeed, whatever PAUSE_PLAYBACK and RESUME_PLAYBACK requests  *)
(* come, the steps are dispatched once each in flow order.                 *)
(* Violated: RESUME_PLAYBACK starts a second chain beside a pending timer  *)
(* or an in-flight step.                                                   *)
(***************************************************************************)
C7_PauseResumeInOrder ==
  (~Stale /\ "fail" \notin flags)
    => /\ InOrder
       /\ session.why = "complete" => Len(dispatched) = SessionSteps

(***************************************************************************)
(* C8.  After stopPlayback the state is Idle (isPlaying and isPaused       *)
(* false, currentFlowId null, currentStepIndex 0) and stays so until the   *)
(* next START_PLAYBACK.                                                    *)
(* Violated: the continuation of a step in flight increments               *)
(* currentStepIndex; PAUSE_PLAYBACK sets isPaused.                         *)
(***************************************************************************)
C8_IdleAfterStop ==
  session.why # "none"
    => /\ ~playbackState.isPlaying
       /\ ~playbackState.isPaused
       /\ playbackState.currentFlowId = NoFlow
       /\ playbackState.currentStepIndex = 0

(***************************************************************************)
(* C9.  In a session where every step succeeds and no resume, stop or      *)
(* second start interferes, steps 0..n-1 are dispatched once each in flow  *)
(* order, currentStepIndex counts the settled steps and never exceeds n,   *)
(* and the invocation that finds the index past the end goes Idle.         *)
(***************************************************************************)
C9_RunsInOrder ==
  ("fail" \notin flags /\ SingleChain)
    => /\ InOrder
       /\ playbackState.isPlaying =>
            /\ playbackState.currentStepIndex <= SessionSteps
            /\ playbackState.currentStepIndex =
                 Len(dispatched) - CountIn(tasks, InFlightPcs)
       /\ session.why = "complete" =>
            /\ ~playbackState.isPlaying
            /\ session.at = SessionSteps
            /\ Len(dispatched) = SessionSteps

\* the three-step flow ran to its end with every step succeeding
C9_Witness ==
  /\ session.flow = "A" /\ session.why = "complete" /\ session.at = 3
  /\ flags = {}
  /\ Len(dispatched) = 3

(***************************************************************************)
(* C10.  The first step of a session is dispatched only after the tab      *)
(* reported complete for the start navigation and waitForPageReady         *)
(* returned true with the content script loaded.                           *)
(* Violated: waitForPageReady drops the result of                          *)
(* ensureContentScriptLoaded; RESUME_PLAYBACK steps without waiting.       *)
(***************************************************************************)
C10_StepsAfterReady == Len(dispatched) > 0 => pageReady

(***************************************************************************)
(* C11.  Every step of type navigation is handled by the controller and    *)
(* never sent to the page agent as EXECUTE_STEP, also one whose url is     *)
(* missing or empty.                                                       *)
(* Violated: the navigation branch asks for `step.url` too, so a           *)
(* navigation step without url falls through to sendMessageWithRetry.      *)
(***************************************************************************)
C11_NavigationByController ==
  \A t \in BagToSet(tasks) : t.pc = "send" => StepAt(t.flow, t.idx).type # "navigation"

(***************************************************************************)
(* Scheduling.  A timer that was set fires, and an await on getFlows,      *)
(* getActiveTab or sendMessageWithRetry settles (the retries are bounded). *)
(* Whether the tab ever reports status complete is up to the page, and     *)
(* whether a message comes is up to the user: neither is assumed.          *)
(***************************************************************************)
FairSpec ==
  /\ Spec
  /\ WF_playbackVars(\E t \in BagToSet(tasks) : TimerFires(t))
  /\ WF_playbackVars(\E t \in BagToSet(tasks) : ResumeContinues(t))
  /\ WF_playbackVars(\E t \in BagToSet(tasks) : ActiveTabResolved(t))
  /\ WF_playbackVars(\E t \in BagToSet(tasks) : StepSettled(t))

\* tabs.onUpdated listeners registered after a navigation of the tab
ListenPcs == {"startListen", "navListen"}

\* the one stepping chain of a session waits for the tab it navigated to report
\* status complete
WaitingForPage ==
  playbackState.isPlaying /\ SingleChain /\ CountIn(tasks, ListenPcs) > 0

(***************************************************************************)
(* C12.  When the page the controller navigated to never reaches the       *)
(* complete status, playback is aborted: a session that waits for the page *)
(* leaves that wait or goes Idle.                                          *)
(* Violated: only the listener starts waitForPageReady and its timeout; a  *)
(* tab that never reports complete leaves the session Playing for ever.    *)
(***************************************************************************)
C12_AbortsWhenNeverReady == WaitingForPage ~> ~WaitingForPage

\* this step handles the first step of the session whose delivery was rejected
\* on each of the maxRetries attempts
FirstThrowHandled == "throw" \notin flags /\ "throw" \in flags'

(***************************************************************************)
(* C13.  When the delivery of a step fails on every attempt the session    *)
(* ends: playback goes Idle in the slice that handles the failure and no   *)
(* further invocation is scheduled, whatever stopOnError says.             *)
(* Violated: with stopOnError cleared the catch branch increments the      *)
(* index and sets the next timer.                                          *)
(***************************************************************************)
C13_TransportFailureIsFatal ==
  [][FirstThrowHandled
       => /\ ~playbackState'.isPlaying
          /\ CountIn(tasks', {"timer"}) = CountIn(tasks, {"timer"})]_vars

\* this step settles a step that was sent to the page agent or navigated to
StepSettles == CountIn(tasks', InFlightPcs) < CountIn(tasks, InFlightPcs)

(***************************************************************************)
(* C14.  With options.stepByStep set the controller does not advance by    *)
(* itself: the slice in which a step settles sets no timer for the next    *)
(* invocation of executeNextStep.                                          *)
(* Violated: the controller never reads stepByStep.                        *)
(***************************************************************************)
C14_StepByStepWaits ==
  [][(playbackState.options.stepByStep /\ StepSettles)
       => CountIn(tasks', {"timer"}) <= CountIn(tasks, {"timer"})]_vars

\* this step sets the timer u / settles the step of the continuation t
TimerSet(u) == u.pc = "timer" /\ CopiesIn(u, tasks') > CopiesIn(u, tasks)
Settled(t) == t.pc \in InFlightPcs /\ CopiesIn(t, tasks') < CopiesIn(t, tasks)

\* the recorded delay of the step the index points at once this step is done,
\* and that delay divided by options.speed
RecordedNextDelay(flowId) == StepAt(flowId, playbackState'.currentStepIndex).delay
ScaledNextDelay(flowId) ==
  (IF HasStep(flowId, playbackState'.currentStepIndex) /\ RecordedNextDelay(flowId) # 0
     THEN RecordedNextDelay(flowId) ELSE 500) \div playbackState.options.speed

(***************************************************************************)
(* C15.  As claimed: the timer set when a step settles is set to the next  *)
(* step's recorded delay divided by options.speed, so that doubling the    *)
(* speed halves it.                                                        *)
(* Violated: the delay is raised to 300 ms (1000 ms after a navigation),   *)
(* is 500 ms after a failed delivery, and a recorded delay of 0 counts as  *)
(* 500.                                                                    *)
(***************************************************************************)
C15_SpeedScalesDelay ==
  [][\A u \in BagToSet(tasks'), t \in BagToSet(tasks) :
       (TimerSet(u) /\ Settled(t) /\ HasStep(u.flow, playbackState'.currentStepIndex))
         => u.delay * playbackState.options.speed = RecordedNextDelay(u.flow)]_vars

(***************************************************************************)
(* C15, amended.  The timer set when a step settles is set to the next     *)
(* step's recorded delay (500 when it is 0 or there is no next step)       *)
(* divided by options.speed, but to no less than 300 ms after an           *)
(* EXECUTE_STEP and 1000 ms after a navigation, and to 500 ms after a      *)
(* delivery that failed: doubling the speed halves the delay only above    *)
(* these limits.  The flows themselves are never written.                  *)
(***************************************************************************)
C15_ScaledDelayWithFloor ==
  [][\A u \in BagToSet(tasks'), t \in BagToSet(tasks) :
       (TimerSet(u) /\ Settled(t))
         => /\ t.pc = "navListen" => u.delay = Max(ScaledNextDelay(u.flow), 1000)
            /\ t.pc = "send" => u.delay \in {Max(ScaledNextDelay(u.flow), 300), 500}
            /\ (t.pc = "send" /\ playbackState.isPlaying /\ SingleChain
                  /\ "throw" \notin flags')
                 => u.delay = Max(ScaledNextDelay(u.flow), 300)]_vars

\* at speed 2 the timer before step 2 of the three-step flow, recorded with a
\* delay of 2000 ms, was set to 1000 ms
C15_Witness ==
  /\ session.flow = "A" /\ SingleChain /\ "fail" \notin flags
  /\ playbackState.isPlaying
  /\ playbackState.currentStepIndex = 2
  /\ playbackState.options.speed = 2
  /\ \E t \in BagToSet(tasks) : t.pc = "timer" /\ t.delay = 1000

(***************************************************************************)
(* The recording capturer (recorder module of the content script).  Each   *)
(* action is one event handler or timer callback, run to completion.       *)
(* recordStep sends RECORD_STEP to the background, whose addRecordedStep   *)
(* pushes the step on recordingState.steps: `recorded`.                    *)
(***************************************************************************)
\* the text controls of the page, and the values they take
Controls == {"e1", "e2"}
Values == {"", "a"}

\* the positions the window scrolls to
ScrollPositions ==
  {[x |-> 0, y |-> 0], [x |-> 50, y |-> 0], [x |-> 0, y |-> 51], [x |-> 101, y |-> 51]}

\* the target of the scroll debounce timer and of the scroll and navigation steps
Window == "window"

\* a field the step does not have
Undefined == [x |-> -1, y |-> -1]

Abs(n) == IF n < 0 THEN -n ELSE n

\* getDelay: the value it returns (it also sets lastEventTime to now)
getDelay == now - lastEventTime

\* createStep(type, element, extras)
createStep(type, target, v, pos, delay) ==
  [type |-> type, target |-> target, value |-> v, scrollPosition |-> pos,
   timestamp |-> now, delay |-> delay]

\* recordStep: `if (!isRecording) return`, else the step reaches the background
recordStep(steps, step) == IF isRecording THEN Append(steps, step) ELSE steps

\* handleInput with timers that are never cleared
rearmed_keepsOld(pending, target) == pending (+) SetToBag({target})

\* clearTimeout(existing timer of target) and setTimeout for target
rearmed(pending, target) == (pending (-) SetToBag({target})) (+) SetToBag({target})

\* Map.set: a new key goes to the end, a known key keeps its place
MapSet(keys, k) ==
  IF \E i \in 1..Len(keys) : keys[i] = k THEN keys ELSE Append(keys, k)
\* Map.delete
MapDelete(keys, k) == SelectSeq(keys, LAMBDA e : e # k)

\* a threshold that a displacement of exactly 50 px passes
movedEnough_inclusive(cur, last) ==
  Abs(cur.x - last.x) >= 50 \/ Abs(cur.y - last.y) >= 50

\* handleScroll's test: Math.abs(dx) > 50 || Math.abs(dy) > 50
movedEnough(cur, last) ==
  Abs(cur.x - last.x) > 50 \/ Abs(cur.y - last.y) > 50

\* stopRecording's forEach over the pending inputs: the steps it records, given
\* the lastEventTime it starts from; [steps, last]
RECURSIVE flushPending(_, _, _)
flushPending(keys, steps, last) ==
  IF keys = <<>> THEN [steps |-> steps, last |-> last]
  ELSE IF value[Head(keys)] # ""
    THEN flushPending(Tail(keys),
                      recordStep(steps, createStep("input", Head(keys), value[Head(keys)],
                                                   Undefined, now - last)),
                      now)
    ELSE flushPending(Tail(keys), steps, last)

\* clearTimeout for every key of the Map
RECURSIVE clearAll(_, _)
clearAll(pending, keys) ==
  IF keys = <<>> THEN pending
  ELSE clearAll(pending (-) SetToBag({Head(keys)}), Tail(keys))

\* a stopRecording that leaves the timers running
stoppedTimers_keepsAll(pending, keys, scrollSet) == pending

\* the timers left when stopRecording is done: those of the Map are cleared, and
\* the scroll timer if scrollTimeout is set
stoppedTimers(pending, keys, scrollSet) ==
  LET inputsCleared == clearAll(pending, keys)
  IN IF scrollSet THEN inputsCleared (-) SetToBag({Window}) ELSE inputsCleared

RecInit ==
  /\ PlaybackIdle
  /\ \E v \in [Controls -> Values], pos \in ScrollPositions : RecorderLoaded(v, pos)
  /\ RecordingIdle
  /\ StorageLoaded(<<>>)
  /\ AgentLoaded("plain")

\* START_RECORDING reaches the content script: startRecording.  The background
\* has emptied recordingState.steps before it sent the message.
StartRecording ==
  /\ ~isRecording
  /\ isRecording' = TRUE
  /\ lastEventTime' = now
  /\ lastScrollPosition' = scroll
  /\ recorded' = <<>>
  /\ cleared' = 0
  /\ burst' = [target |-> "none", n |-> 0]
  /\ UNCHANGED <<inputDebounceTimers, scrollTimeout, timers, now, value, scroll>>

\* STOP_RECORDING reaches the content script: stopRecording
StopRecording ==
  /\ isRecording
  /\ LET flush == flushPending(inputDebounceTimers, recorded, lastEventTime)
     IN /\ recorded' = flush.steps
        /\ lastEventTime' = flush.last
  /\ inputDebounceTimers' = <<>>
  /\ isRecording' = FALSE
  /\ timers' = stoppedTimers(timers, inputDebounceTimers, scrollTimeout)
  /\ cleared' = BagCardinality(timers) - BagCardinality(timers')
  /\ UNCHANGED <<scrollTimeout, lastScrollPosition, now, value, scroll, burst>>

\* the listeners are attached, and the user goes on while the recording is short
Listening == isRecording /\ Len(recorded) < MaxSteps

\* a click outside the controls: handleClick
Click ==
  /\ Listening
  /\ recorded' = recordStep(recorded, createStep("click", "body", "", Undefined, getDelay))
  /\ lastEventTime' = now
  /\ UNCHANGED <<isRecording, inputDebounceTimers, scrollTimeout, lastScrollPosition,
                 timers, now, value, scroll, cleared, burst>>

\* an input event on the text control e, whose value has become v: handleInput
InputEvent(e, v) ==
  /\ Listening
  /\ value' = [value EXCEPT ![e] = v]
  /\ timers' = rearmed(timers, e)
  /\ inputDebounceTimers' = MapSet(inputDebounceTimers, e)
  /\ burst' = [target |-> e,
               n |-> IF burst.target = e /\ CopiesIn(e, timers) > 0 THEN 2 ELSE 1]
  /\ UNCHANGED <<isRecording, lastEventTime, scrollTimeout, lastScrollPosition, now,
                 scroll, recorded, cleared>>

\* the debounce timer of e fires: the callback handleInput had set
InputTimerFires(e) ==
  /\ e \in Controls
  /\ CopiesIn(e, timers) > 0
  /\ timers' = timers (-) SetToBag({e})
  /\ inputDebounceTimers' = MapDelete(inputDebounceTimers, e)
  /\ recorded' = recordStep(recorded, createStep("input", e, value[e], Undefined, getDelay))
  /\ lastEventTime' = now
  /\ UNCHANGED <<isRecording, scrollTimeout, lastScrollPosition, now, value, scroll, cleared, burst>>

\* the window scrolls to pos: handleScroll
ScrollEvent(pos) ==
  /\ Listening
  /\ scroll' = pos
  /\ timers' = IF scrollTimeout THEN rearmed(timers, Window)
               ELSE timers (+) SetToBag({Window})
  /\ scrollTimeout' = TRUE
  /\ UNCHANGED <<isRecording, lastEventTime, inputDebounceTimers, lastScrollPosition,
                 now, value, recorded, cleared, burst>>

\* the scroll debounce timer fires
ScrollTimerFires ==
  /\ CopiesIn(Window, timers) > 0
  /\ timers' = timers (-) SetToBag({Window})
  /\ IF movedEnough(scroll, lastScrollPosition)
       THEN /\ recorded' = recordStep(recorded,
                             createStep("scroll", Window, "", scroll, getDelay))
            /\ lastEventTime' = now
            /\ lastScrollPosition' = scroll
       ELSE UNCHANGED <<recorded, lastEventTime, lastScrollPosition>>
  /\ UNCHANGED <<isRecording, inputDebounceTimers, scrollTimeout, now, value, scroll, cleared, burst>>

\* the background's tabs.onUpdated listener sees a new url while recording
NavigationRecorded ==
  /\ Listening
  /\ recorded' = Append(recorded,
       createStep("navigation", Window, "", Undefined,
                  IF Len(recorded) > 0 THEN now - recorded[Len(recorded)].timestamp ELSE 0))
  /\ UNCHANGED <<isRecording, lastEventTime, inputDebounceTimers, scrollTimeout,
                 lastScrollPosition, timers, now, value, scroll, cleared, burst>>

\* time passes
Tick ==
  /\ now < MaxNow
  /\ now' = now + 1
  /\ UNCHANGED <<isRecording, lastEventTime, inputDebounceTimers, scrollTimeout,
                 lastScrollPosition, timers, value, scroll, recorded, cleared, burst>>

RecNext ==
  \/ StartRecording /\ UNCHANGED exceptRecorder
  \/ StopRecording /\ UNCHANGED exceptRecorder
  \/ Click /\ UNCHANGED exceptRecorder
  \/ /\ \E e \in Controls, v \in Values : InputEvent(e, v)
     /\ UNCHANGED exceptRecorder
  \/ /\ \E e \in Controls : InputTimerFires(e)
     /\ UNCHANGED exceptRecorder
  \/ /\ \E pos \in ScrollPositions : ScrollEvent(pos)
     /\ UNCHANGED exceptRecorder
  \/ ScrollTimerFires /\ UNCHANGED exceptRecorder
  \/ NavigationRecorded /\ UNCHANGED exceptRecorder
  \/ Tick /\ UNCHANGED exceptRecorder

RecSpec == RecInit /\ [][RecNext]_vars

RecTypeOK ==
  /\ isRecording \in BOOLEAN
  /\ scrollTimeout \in BOOLEAN
  /\ now \in 0..MaxNow
  /\ lastEventTime \in 0..MaxNow
  /\ scroll \in ScrollPositions
  /\ value \in [Controls -> Values]

(***************************************************************************)
(* Vocabulary of the recorder's properties.                                *)
(***************************************************************************)
\* the keys of the Map
Pending == {inputDebounceTimers[i] : i \in 1..Len(inputDebounceTimers)}

\* this step records exactly one more step, and it is an input step of e
InputStepAdded(e) ==
  /\ Len(recorded') = Len(recorded) + 1
  /\ SubSeq(recorded', 1, Len(recorded)) = recorded
  /\ recorded'[Len(recorded')].type = "input"
  /\ recorded'[Len(recorded')].target = e

\* this step is the debounce timer of e firing while the recording goes on
DebounceFires(e) == CopiesIn(e, timers') < CopiesIn(e, timers) /\ isRecording'

(***************************************************************************)
(* C16.  A burst of input events on one text control, each arriving while  *)
(* the debounce timer of the previous one is pending, yields one input     *)
(* step: every event replaces the pending timer, so a control has at most  *)
(* one; no input step of the control is recorded before its timer fires;   *)
(* and the firing records exactly one, with the value the control has      *)
(* then.                                                                   *)
(***************************************************************************)
C16_OneTimerPerControl ==
  \A e \in Controls :
    /\ CopiesIn(e, timers) <= 1
    /\ CopiesIn(e, timers) = 1 <=> e \in Pending

C16_RecordedWhenFired ==
  [][\A e \in Controls :
       /\ DebounceFires(e)
            => InputStepAdded(e) /\ recorded'[Len(recorded')].value = value[e]
       /\ (isRecording /\ isRecording' /\ ~DebounceFires(e)) => ~InputStepAdded(e)]_vars

C16_BurstYieldsOneStep == []C16_OneTimerPerControl /\ C16_RecordedWhenFired

\* two input events in a row set the timer of a control, the timer has fired, and
\* the recording holds the one step
C16_Witness ==
  /\ isRecording
  /\ burst.n = 2
  /\ timers = EmptyBag
  /\ Len(recorded) = 1
  /\ recorded[1].type = "input"
  /\ recorded[1].target = burst.target
  /\ recorded[1].value = value[burst.target]

\* this step is stopRecording
RecordingStops == isRecording /\ ~isRecording'

(***************************************************************************)
(* C17.  When recording stops, every text control with a pending debounce  *)
(* timer gets its value flushed: one input step with the control's current *)
(* value is recorded for it, whatever the value, the empty string          *)
(* included, and its timer is gone.                                        *)
(* Violated: the flush is guarded by `if (target.value)`, so a control     *)
(* whose value is the empty string gets no step.                           *)
(***************************************************************************)
C17_FlushOnStop ==
  [][RecordingStops
       => /\ Len(recorded') = Len(recorded) + Len(inputDebounceTimers)
          /\ \A i \in 1..Len(inputDebounceTimers) :
               /\ recorded'[Len(recorded) + i].type = "input"
               /\ recorded'[Len(recorded) + i].target = inputDebounceTimers[i]
               /\ recorded'[Len(recorded) + i].value = value[inputDebounceTimers[i]]
          /\ \A e \in Controls : CopiesIn(e, timers') = 0]_vars

(***************************************************************************)
(* C18.  After stopRecording no step is recorded until the next            *)
(* startRecording: while the recorder is stopped no timer is pending, of   *)
(* the text controls or of the scroll debounce, and the Map is empty; the  *)
(* steps of the recording stay as they are; and a control leaves the Map   *)
(* when its timer fires as well as on stop.                                *)
(***************************************************************************)
C18_NothingPendingWhenStopped ==
  ~isRecording => timers = EmptyBag /\ inputDebounceTimers = <<>>

C18_NothingRecordedWhenStopped ==
  [][/\ (~isRecording /\ ~isRecording') => recorded' = recorded
     /\ \A e \in Controls :
          CopiesIn(e, timers') < CopiesIn(e, timers)
            => \A i \in 1..Len(inputDebounceTimers') : inputDebounceTimers'[i] # e]_vars

C18_NoStrayStepAfterStop ==
  []C18_NothingPendingWhenStopped /\ C18_NothingRecordedWhenStopped

\* stopRecording found two timers pending and cleared them
C18_Witness ==
  /\ ~isRecording
  /\ cleared >= 2
  /\ timers = EmptyBag

\* this step is the scroll debounce timer firing while the recording goes on
ScrollDebounceFires ==
  CopiesIn(Window, timers') < CopiesIn(Window, timers) /\ isRecording /\ isRecording'

\* the window is more than 50 px away from the last recorded position, on the x or
\* on the y axis
Displaced ==
  \/ scroll.x - lastScrollPosition.x > 50 \/ lastScrollPosition.x - scroll.x > 50
  \/ scroll.y - lastScrollPosition.y > 50 \/ lastScrollPosition.y - scroll.y > 50

\* this step records exactly one more step, and it is a scroll step
ScrollStepAdded ==
  /\ Len(recorded') = Len(recorded) + 1
  /\ SubSeq(recorded', 1, Len(recorded)) = recorded
  /\ recorded'[Len(recorded')].type = "scroll"

(***************************************************************************)
(* C19.  When the scroll debounce fires, a scroll step is recorded if and  *)
(* only if the window is more than 50 px from the last recorded position   *)
(* on the x or the y axis: then exactly one step, with the current         *)
(* position, else none.  The last recorded position is the position at     *)
(* startRecording and afterwards changes only when a step is recorded.     *)
(***************************************************************************)
C19_ScrollThreshold ==
  [][/\ (ScrollDebounceFires /\ Displaced)
          => /\ ScrollStepAdded
             /\ recorded'[Len(recorded')].scrollPosition = scroll
             /\ lastScrollPosition' = scroll
     /\ (ScrollDebounceFires /\ ~Displaced)
          => recorded' = recorded /\ lastScrollPosition' = lastScrollPosition
     /\ ScrollStepAdded => ScrollDebounceFires
     /\ (~isRecording /\ isRecording') => lastScrollPosition' = scroll
     /\ lastScrollPosition' # lastScrollPosition
          => ScrollStepAdded \/ (~isRecording /\ isRecording')]_vars

\* the window was scrolled by more than 50 px, the debounce has fired, and the
\* recording holds the one scroll step
C19_Witness ==
  /\ isRecording
  /\ CopiesIn(Window, timers) = 0
  /\ Len(recorded) = 1
  /\ recorded[1].type = "scroll"
  /\ recorded[1].scrollPosition = scroll
  /\ lastScrollPosition = scroll

(***************************************************************************)
(* C20.  The first step of a recording has delay 0, and every later step   *)
(* has as delay the time elapsed since the step before it, a navigation    *)
(* step recorded by the background included.                               *)
(* Violated: getDelay measures from lastEventTime, which startRecording    *)
(* sets to the time of the start, so the first step carries the time       *)
(* between the start and the step.                                         *)
(***************************************************************************)
C20_DelaySincePrevious ==
  recorded # <<>>
    => /\ recorded[1].delay = 0
       /\ \A i \in 2..Len(recorded) :
            recorded[i].delay = recorded[i].timestamp - recorded[i - 1].timestamp

(***************************************************************************)
(* The recording accumulator of the service worker (service-worker.ts      *)
(* lines 86-172 and 369-388), specification BgSpec.  startRecording and    *)
(* stopRecording are async: each action below is one of their slices, and  *)
(* bgTasks holds the calls suspended at an await.  A stopRecording that    *)
(* has built its flow keeps `steps: recordingState.steps`, the array       *)
(* itself: while recordingState still holds that array (live), a step      *)
(* pushed to the one is pushed to the other.                               *)
(***************************************************************************)
\* generateId(): a session gets an id of its own
GeneratedIds == {"r1", "r2"}

\* the active tab of getActiveTab: none, or one with an id and a url
ActiveTabs == {"none", "/a"}

\* the types of the steps a RECORD_STEP message carries
RecordedTypes == {"click"}

BgTask(pc, id, steps, live) == [pc |-> pc, id |-> id, steps |-> steps, live |-> live]
Suspended(pc) == BgTask(pc, NoFlow, <<>>, FALSE)

\* a suspended call resumes and ends, or suspends again at its next await
Dropped(ts, t) == ts (-) SetToBag({t})
Swapped(ts, t, new) == (ts (-) SetToBag({t})) (+) SetToBag({new})

\* recordingState = { ... steps: [] ... }: no flow holds the new array
unlinked(ts) ==
  LET S == BagToSet(ts)
      U == {BgTask(t.pc, t.id, t.steps, FALSE) : t \in S}
  IN  [u \in U |-> SumCopies({t \in S : BgTask(t.pc, t.id, t.steps, FALSE) = u}, ts)]

\* recordingState.steps.push(step) is seen through every flow that holds the array
pushedThrough(ts, step) ==
  LET S == BagToSet(ts)
      P(t) == IF t.live THEN BgTask(t.pc, t.id, Append(t.steps, step), TRUE) ELSE t
      U == {P(t) : t \in S}
  IN  [u \in U |-> SumCopies({t \in S : P(t) = u}, ts)]

\* addRecordedStep: if (!recordingState.isRecording) return; steps.push(step)
addRecordedStep_unguarded(state, step) ==
  [state EXCEPT !.steps = Append(@, step)]
addRecordedStep(state, step) ==
  IF ~state.isRecording THEN state ELSE [state EXCEPT !.steps = Append(@, step)]

\* the flow stopRecording builds from the accumulator
builtFlow(state) == BgTask("stop_get", state.currentFlowId, state.steps, TRUE)

\* START_RECORDING from the popup, or toggle-recording while not recording:
\* startRecording up to `await getActiveTab()`
StartRecordingCalled ==
  /\ BagCardinality(bgTasks) < MaxTasks
  /\ bgTasks' = bgTasks (+) SetToBag({Suspended("start_tab")})
  /\ UNCHANGED <<recordingState, savedFlow>>

\* getActiveTab resolves in startRecording: without a tab id or url it returns,
\* else it opens a session.  What follows (the delivery of START_RECORDING and
\* the badge) writes nothing of the recording state.
StartTabResolved(t, tab, id) ==
  /\ t.pc = "start_tab"
  /\ IF tab = "none"
       THEN /\ bgTasks' = Dropped(bgTasks, t)
            /\ UNCHANGED recordingState
       ELSE /\ recordingState' = [isRecording |-> TRUE, currentFlowId |-> id,
                                  steps |-> <<>>, startUrl |-> tab]
            /\ bgTasks' = unlinked(Dropped(bgTasks, t))
  /\ UNCHANGED savedFlow

\* STOP_RECORDING from the popup, or toggle-recording while recording:
\* stopRecording returns null when nothing is recorded, else runs up to
\* `await getActiveTab()`
StopRecordingCalled ==
  /\ BagCardinality(bgTasks) < MaxTasks
  /\ IF ~recordingState.isRecording
       THEN UNCHANGED bgTasks
       ELSE bgTasks' = bgTasks (+) SetToBag({Suspended("stop_tab")})
  /\ UNCHANGED <<recordingState, savedFlow>>

\* getActiveTab resolves in stopRecording: with a tab it awaits the delivery of
\* STOP_RECORDING, without one it builds the flow and calls saveFlow, which
\* awaits getFlows
StopTabResolved(t, tab) ==
  /\ t.pc = "stop_tab"
  /\ bgTasks' = IF tab = "none"
                  THEN Swapped(bgTasks, t, builtFlow(recordingState))
                  ELSE Swapped(bgTasks, t, Suspended("stop_send"))
  /\ UNCHANGED <<recordingState, savedFlow>>

\* the delivery of STOP_RECORDING settles (a rejection is caught): the flow is
\* built and saveFlow awaits getFlows
StopSendSettled(t) ==
  /\ t.pc = "stop_send"
  /\ bgTasks' = Swapped(bgTasks, t, builtFlow(recordingState))
  /\ UNCHANGED <<recordingState, savedFlow>>

\* getFlows resolves in saveFlow: the flow, as it is now, is handed to
\* chrome.storage.local.set
StopFlowsRead(t) ==
  /\ t.pc = "stop_get"
  /\ savedFlow' = [id |-> t.id, steps |-> t.steps, written |-> TRUE]
  /\ bgTasks' = Swapped(bgTasks, t, BgTask("stop_set", t.id, t.steps, t.live))
  /\ UNCHANGED recordingState

\* saveFlow resolves: the accumulator is reset
StopSaved(t) ==
  /\ t.pc = "stop_set"
  /\ recordingState' = EmptyRecording
  /\ bgTasks' = unlinked(Dropped(bgTasks, t))
  /\ UNCHANGED savedFlow

\* a RECORD_STEP message arrives
RecordStepMessage(type) ==
  /\ Len(recordingState.steps) < MaxSteps
  /\ recordingState' = addRecordedStep(recordingState, type)
  /\ bgTasks' = IF recordingState'.steps = recordingState.steps
                  THEN bgTasks ELSE pushedThrough(bgTasks, type)
  /\ UNCHANGED savedFlow

\* chrome.tabs.onUpdated with a changeInfo.url
UrlChanged ==
  /\ Len(recordingState.steps) < MaxSteps
  /\ IF recordingState.isRecording
       THEN /\ recordingState' = addRecordedStep(recordingState, "navigation")
            /\ bgTasks' = pushedThrough(bgTasks, "navigation")
       ELSE UNCHANGED <<recordingState, bgTasks>>
  /\ UNCHANGED savedFlow

BgNext ==
  \/ StartRecordingCalled /\ UNCHANGED exceptBackground
  \/ (\E t \in BagToSet(bgTasks), tab \in ActiveTabs, id \in GeneratedIds :
        StartTabResolved(t, tab, id))
     /\ UNCHANGED exceptBackground
  \/ StopRecordingCalled /\ UNCHANGED exceptBackground
  \/ (\E t \in BagToSet(bgTasks), tab \in ActiveTabs : StopTabResolved(t, tab))
     /\ UNCHANGED exceptBackground
  \/ (\E t \in BagToSet(bgTasks) : StopSendSettled(t)) /\ UNCHANGED exceptBackground
  \/ (\E t \in BagToSet(bgTasks) : StopFlowsRead(t)) /\ UNCHANGED exceptBackground
  \/ (\E t \in BagToSet(bgTasks) : StopSaved(t)) /\ UNCHANGED exceptBackground
  \/ (\E type \in RecordedTypes : RecordStepMessage(type)) /\ UNCHANGED exceptBackground
  \/ UrlChanged /\ UNCHANGED exceptBackground

BgInit ==
  /\ PlaybackIdle
  /\ RecorderLoaded([e \in {"e1", "e2"} |-> ""], [x |-> 0, y |-> 0])
  /\ RecordingIdle
  /\ StorageLoaded(<<>>)
  /\ AgentLoaded("plain")

BgSpec == BgInit /\ [][BgNext]_vars

BgTypeOK ==
  /\ recordingState.isRecording \in BOOLEAN
  /\ recordingState.currentFlowId \in GeneratedIds \cup {NoFlow}
  /\ Len(recordingState.steps) <= MaxSteps
  /\ BagCardinality(bgTasks) <= MaxTasks

\* C21: whenever recordingState.isRecording is false the accumulator is empty:
\* steps = [], currentFlowId = null and startUrl = null.
C21_EmptyWhenNotRecording ==
  ~recordingState.isRecording =>
    /\ recordingState.steps = <<>>
    /\ recordingState.currentFlowId = NoFlow
    /\ recordingState.startUrl = NoUrl

\* C21: a RECORD_STEP message or a URL change that arrives while nothing is
\* recorded adds no step, and the reset of stopRecording leaves nothing behind.
C21_NoStepWhenNotRecording ==
  [][/\ ~recordingState.isRecording => recordingState'.isRecording
                                         \/ recordingState' = EmptyRecording
     /\ (\E t \in BagToSet(bgTasks) : StopSaved(t)) => recordingState' = EmptyRecording]_vars

\* C21, both halves
C21_AccumulatorLivesInSession ==
  [](C21_EmptyWhenNotRecording) /\ C21_NoStepWhenNotRecording

\* a session recorded a step, stopRecording saved it and reset the accumulator
C21_Witness ==
  /\ ~recordingState.isRecording
  /\ savedFlow.written
  /\ savedFlow.steps # <<>>
  /\ bgTasks = EmptyBag

(***************************************************************************)
(* The page.  A document is the sequence of its elements in document       *)
(* order.  An element has a tag, its parentElement (0: none), the host of  *)
(* the shadow root whose tree it is in (0: the tree of the document), its  *)
(* attributes, its class tokens and the text it holds itself.              *)
(***************************************************************************)
Range(s) == {s[i] : i \in DOMAIN s}
Repeat(c, n) == [i \in 1..n |-> c]

Attrs(f) == [a \in AttributeNames |-> IF a \in DOMAIN f THEN f[a] ELSE <<>>]
El(tag, parent, host, attrs, classes, text) ==
  [tag |-> tag, parent |-> parent, host |-> host, attributes |-> Attrs(attrs),
   classes |-> classes, text |-> text]

Html == El("html", 0, 0, <<>>, <<>>, <<>>)
Body == El("body", 1, 0, <<>>, <<>>, <<>>)

Documents ==
  [plain |->
     <<Html, Body,
       El("button", 2, 0, "id" :> <<"a">>, <<>>, <<"O", "K">>),
       El("input", 2, 0, ("name" :> <<"q">>) @@ ("placeholder" :> <<"G", "o">>),
          <<>>, <<>>),
       El("div", 2, 0, <<>>, << <<"c", "a", "r", "d">>, <<"p", "-", "4">> >>, <<>>),
       El("span", 5, 0, <<>>, <<>>, <<" ", "H", "i", " ">>),
       El("span", 5, 0, "role" :> <<"t">>, <<>>, <<"Y", "o">>)>>,
   \* the button of `plain` after the page was rendered anew: no id, another text
   moved |->
     <<Html, Body,
       El("div", 2, 0, <<>>, <<>>, <<>>),
       El("button", 3, 0, <<>>, <<>>, <<"O", "K", "!">>)>>,
   \* two open shadow roots, one in the other
   shadow |->
     <<Html, Body,
       El("div", 2, 0, "id" :> <<"h">>, <<>>, <<>>),
       El("button", 0, 3, "id" :> <<"i", "n">>, <<>>, <<"O", "K">>),
       El("div", 0, 3, <<>>, << <<"b", "o", "x">> >>, <<>>),
       El("span", 0, 5, <<>>, <<>>, <<"H", "i">>),
       El("span", 2, 0, <<>>, <<>>, <<"H", "i">>)>>,
   \* the page of `shadow` where the host has no shadow root (any more)
   bare |->
     <<Html, Body,
       El("div", 2, 0, "id" :> <<"h">>, <<>>, <<>>),
       El("button", 2, 0, <<>>, <<>>, <<"N", "o">>),
       El("button", 2, 0, "id" :> <<"i", "n">>, <<>>, <<"O", "K">>),
       El("span", 2, 0, <<>>, <<>>, <<"H", "i">>)>>,
   \* a host whose id starts with a digit
   digit |->
     <<Html, Body,
       El("div", 2, 0, "id" :> <<"1", "h">>, <<>>, <<>>),
       El("button", 0, 3, "data-testid" :> <<"g", "o">>, <<>>, <<"O", "K">>),
       El("button", 2, 0, "data-testid" :> <<"g", "o">>, <<>>, <<"N", "o">>)>>,
   \* two elements with the same id
   twins |->
     <<Html, Body,
       El("button", 2, 0, "id" :> <<"a">>, <<>>, <<"N", "o">>),
       El("button", 2, 0, "id" :> <<"a">>, <<>>, <<"O", "K">>)>>,
   \* an id with a colon, as component libraries generate them
   colon |->
     <<Html, Body,
       El("section", 2, 0, <<>>, <<>>, <<>>),
       El("div", 3, 0, <<>>, <<>>, <<>>),
       El("span", 4, 0, <<>>, <<>>, <<"A">>),
       El("div", 2, 0, <<>>, <<>>, <<>>),
       El("span", 6, 0, "id" :> <<"x", ":", "y">>, <<>>, <<"B">>)>>,
   \* a long text and a long label
   long |->
     <<Html, Body,
       El("p", 2, 0, <<>>, <<>>, Repeat("x", 100)),
       El("a", 2, 0, "aria-label" :> Repeat("l", 50), <<>>, Repeat("x", 99))>>]

DocumentNames == DOMAIN Documents
Nodes(d) == 1..Len(d)

First(S) == CHOOSE n \in S : \A m \in S : n <= m
FirstOrNull(S) == IF S = {} THEN Null ELSE First(S)

\* the elements of the tree of root r: the document (0) or the shadow root of host r
TreeOf(d, r) == {n \in Nodes(d) : d[n].host = r}
Children(d, n) == {m \in Nodes(d) : d[m].parent = n}
\* el.shadowRoot is not null
shadowRoot(d, n) == \E m \in Nodes(d) : d[m].host = n
HostsIn(d, r) == {n \in TreeOf(d, r) : shadowRoot(d, n)}
\* the children of the parent node of n (an element or a root)
Siblings(d, n) == {m \in Nodes(d) : d[m].parent = d[n].parent /\ d[m].host = d[n].host}
\* the position of n among its siblings of the same tag, from 1
TypeIndex(d, n) ==
  Cardinality({m \in Siblings(d, n) : d[m].tag = d[n].tag /\ m <= n})
IsBody(d, n) == d[n].tag = "body" /\ d[n].host = 0

RECURSIVE textContent(_, _), textOfAll(_, _)
textOfAll(d, S) ==
  IF S = {} THEN <<>>
  ELSE LET m == First(S) IN textContent(d, m) \o textOfAll(d, S \ {m})
textContent(d, n) == d[n].text \o textOfAll(d, Children(d, n))

RECURSIVE trimStart(_), trimEnd(_)
trimStart(s) == IF s # <<>> /\ Head(s) = " " THEN trimStart(Tail(s)) ELSE s
trimEnd(s) ==
  IF s # <<>> /\ s[Len(s)] = " " THEN trimEnd(SubSeq(s, 1, Len(s) - 1)) ELSE s
trim(s) == trimEnd(trimStart(s))

\* a.includes(b)
includes(a, b) == \E i \in 0..(Len(a) - Len(b)) : SubSeq(a, i + 1, i + Len(b)) = b

(***************************************************************************)
(* CSS selectors, as the browser parses and matches them.                  *)
(*   id, data-testid, name, aria-label, placeholder, path: what            *)
(*     generateCssSelector writes, with CSS.escape on every value;         *)
(*   rawid (`#${id}`), tagclass (`${tag}.${class}`), tag: written without  *)
(*     CSS.escape, so they parse only if the value is a CSS identifier;    *)
(*   empty: '', which no querySelector parses.                             *)
(***************************************************************************)
Digits == {"0", "1", "2", "3", "4", "5", "6", "7", "8", "9"}
IsIdentifier(s) ==
  /\ s # <<>>
  /\ s[1] \notin Digits
  /\ \A i \in DOMAIN s : s[i] \notin {":", " ", ".", "#", ">", "\""}

Valid(css) ==
  CASE css.kind = "empty" -> FALSE
    [] css.kind \in {"rawid", "tagclass"} -> IsIdentifier(css.v)
    [] OTHER -> TRUE

Seg(id, tag, classes, nth) == [id |-> id, tag |-> tag, classes |-> classes, nth |-> nth]

SegMatches(d, n, seg) ==
  IF seg.id # <<>> THEN d[n].attributes["id"] = seg.id
  ELSE /\ d[n].tag = seg.tag
       /\ \A i \in DOMAIN seg.classes : seg.classes[i] \in Range(d[n].classes)
       /\ seg.nth = 0 \/ TypeIndex(d, n) = seg.nth

\* a > b > c: the child combinator
RECURSIVE PathMatches(_, _, _)
PathMatches(d, n, segs) ==
  LET k == Len(segs) IN
  /\ SegMatches(d, n, segs[k])
  /\ k = 1 \/ (d[n].parent # 0 /\ PathMatches(d, d[n].parent, SubSeq(segs, 1, k - 1)))

Matches(d, n, css) ==
  CASE css.kind \in {"id", "rawid"} -> d[n].attributes["id"] = css.v
    [] css.kind \in {"data-testid", "name", "aria-label", "placeholder", "role"} ->
         /\ css.tag = "" \/ d[n].tag = css.tag
         /\ d[n].attributes[css.kind] = css.v
    [] css.kind = "path" -> PathMatches(d, n, css.segs)
    [] css.kind = "tag" -> d[n].tag = css.tag
    [] css.kind = "tagclass" -> d[n].tag = css.tag /\ css.v \in Range(d[n].classes)
    [] OTHER -> FALSE

\* root.querySelector(css): the first match of the tree of the root, in
\* document order; a SyntaxError for a selector that does not parse
querySelector(d, r, css) ==
  IF ~Valid(css) THEN Thrown
  ELSE FirstOrNull({n \in TreeOf(d, r) : Matches(d, n, css)})

\* root.querySelectorAll(css), as a set: its order is the order of the numbers
querySelectorAll(d, r, css) ==
  IF ~Valid(css) THEN {} ELSE {n \in TreeOf(d, r) : Matches(d, n, css)}

\* document.getElementById
getElementById(d, id) == FirstOrNull({n \in TreeOf(d, 0) : d[n].attributes["id"] = id})
(***************************************************************************)
(* The selector generator (utils/selectors.ts lines 4-179, and the shadow  *)
(* host path of the recorder, src/unnamed/part_000 lines 239-297).         *)
(***************************************************************************)
LowerCase ==
  {"a", "b", "c", "d", "e", "f", "g", "h", "i", "j", "k", "l", "m",
   "n", "o", "p", "q", "r", "s", "t", "u", "v", "w", "x", "y", "z"}

\* the filter of the class tokens (lines 55-64)
Meaningful(c) ==
  /\ c # <<>>
  /\ ":" \notin Range(c)
  /\ ~(\/ Len(c) >= 2 /\ c[1] \in LowerCase /\ c[2] = "-"
       \/ Len(c) >= 3 /\ c[1] \in LowerCase /\ c[2] \in LowerCase /\ c[3] = "-")
  /\ c[1] \notin Digits
  /\ c[1] # "_"
  /\ Len(c) > 2

RECURSIVE filter(_)
filter(classes) ==
  IF classes = <<>> THEN <<>>
  ELSE IF Meaningful(Head(classes)) THEN <<Head(classes)>> \o filter(Tail(classes))
  ELSE filter(Tail(classes))

\* .slice(0, 2)
slice2(s) == SubSeq(s, 1, IF Len(s) < 2 THEN Len(s) ELSE 2)

\* element.id && !element.id.includes(':')
HasPlainId(d, n) == d[n].attributes["id"] # <<>> /\ ":" \notin Range(d[n].attributes["id"])

maxDepth == 5

\* the loop of lines 41-86: the path from the element towards the root
RECURSIVE cssPath(_, _, _)
cssPath(d, current, depth) ==
  IF current = 0 \/ IsBody(d, current) \/ depth >= maxDepth THEN <<>>
  ELSE IF HasPlainId(d, current)
    THEN <<Seg(d[current].attributes["id"], "", <<>>, 0)>>
  ELSE LET parentEl == d[current].parent
           matchingSiblings ==
             {m \in Children(d, parentEl) : d[m].tag = d[current].tag}
           nth == IF parentEl # 0 /\ Cardinality(matchingSiblings) > 1
                    THEN Cardinality({m \in matchingSiblings : m <= current})
                    ELSE 0
       IN  Append(cssPath(d, parentEl, depth + 1),
                  Seg(<<>>, d[current].tag, slice2(filter(d[current].classes)), nth))

\* a generator that writes the tag and nothing else
generateCssSelector_byTag(d, n) ==
  Css("tag", d[n].tag, <<>>, <<>>)
generateCssSelector(d, n) ==
  LET a == d[n].attributes IN
  IF HasPlainId(d, n) THEN Css("id", "", a["id"], <<>>)
  ELSE IF a["data-testid"] # <<>> THEN Css("data-testid", "", a["data-testid"], <<>>)
  ELSE IF a["name"] # <<>> THEN Css("name", d[n].tag, a["name"], <<>>)
  ELSE IF a["aria-label"] # <<>> /\ Len(a["aria-label"]) < 50
    THEN Css("aria-label", "", a["aria-label"], <<>>)
  ELSE IF a["placeholder"] # <<>> /\ Len(a["placeholder"]) < 50
    THEN Css("placeholder", "", a["placeholder"], <<>>)
  ELSE LET path == cssPath(d, n, 0)
       IN  IF path = <<>> THEN NoCss ELSE Css("path", "", <<>>, path)

\* tag[k]: k is written only when it is more than 1
RECURSIVE xpathOf(_, _)
xpathOf(d, current) ==
  IF current = 0 THEN <<>>
  ELSE LET index == TypeIndex(d, current)
       IN  Append(xpathOf(d, d[current].parent),
                  [tag |-> d[current].tag, index |-> IF index > 1 THEN index ELSE 0])

generateXPath(d, n) ==
  IF d[n].attributes["id"] # <<>> THEN XPath("id", d[n].attributes["id"], <<>>)
  ELSE XPath("path", <<>>, xpathOf(d, n))

\* the entries of the attributes the element carries
getElementAttributes(d, n) ==
  [a \in AttributeNames |-> d[n].attributes[a]]

\* the trimmed text if it has 1 to 99 characters, else undefined
getElementText(d, n) ==
  LET text == trim(textContent(d, n))
  IN  IF Len(text) > 0 /\ Len(text) < 100 THEN text ELSE <<>>

generateElementSelector(d, n) ==
  ElementSelector(generateCssSelector(d, n), generateXPath(d, n), getElementText(d, n),
                  d[n].tag, getElementAttributes(d, n), <<>>)

\* the selector of a host: #id, tag.firstClass or tag, written without CSS.escape
hostSelector(d, host) ==
  IF d[host].attributes["id"] # <<>> THEN Css("rawid", "", d[host].attributes["id"], <<>>)
  ELSE IF d[host].classes # <<>> THEN Css("tagclass", d[host].tag, d[host].classes[1], <<>>)
  ELSE Css("tag", d[host].tag, <<>>, <<>>)

\* the hosts from the outermost to the innermost; they are joined with ' >>> '
\* into the attribute data-shadow-host-path and split again by findByShadowPath
RECURSIVE getShadowHostPath(_, _)
getShadowHostPath(d, n) ==
  IF d[n].host = 0 THEN <<>>
  ELSE Append(getShadowHostPath(d, d[n].host), hostSelector(d, d[n].host))

isInShadowDOM(d, n) == d[n].host # 0

generateShadowAwareSelector(d, n) ==
  LET baseSelector == generateElementSelector(d, n)
  IN  IF isInShadowDOM(d, n)
        THEN [baseSelector EXCEPT !.hostPath = getShadowHostPath(d, n)]
        ELSE baseSelector

(***************************************************************************)
(* The element resolver of the agent (content/player.ts lines 460-626).    *)
(***************************************************************************)
\* querySelector in the root, then in the shadow roots of its elements, in
\* document order; a selector that does not parse is caught in every root
RECURSIVE deepQuerySelector(_, _, _), deepInHosts(_, _, _)
deepQuerySelector(d, css, root) ==
  LET element == querySelector(d, root, css)
  IN  IF element > 0 THEN element ELSE deepInHosts(d, css, HostsIn(d, root))
deepInHosts(d, css, hosts) ==
  IF hosts = {} THEN Null
  ELSE LET el == First(hosts)
           foundIn == deepQuerySelector(d, css, el)
       IN  IF foundIn # Null THEN foundIn ELSE deepInHosts(d, css, hosts \ {el})

\* the descent through the hosts; nothing catches what querySelector throws
RECURSIVE descend(_, _, _, _)
descend(d, currentRoot, hosts, targetSelector) ==
  IF hosts = <<>> THEN querySelector(d, currentRoot, targetSelector)
  ELSE LET hostElement == querySelector(d, currentRoot, Head(hosts))
       IN  IF hostElement = Thrown THEN Thrown
           ELSE IF hostElement = Null \/ ~shadowRoot(d, hostElement) THEN Null
           ELSE descend(d, hostElement, Tail(hosts), targetSelector)

findByShadowPath(d, hostPath, targetSelector) == descend(d, 0, hostPath, targetSelector)

\* document.evaluate(xpath, document, ..., FIRST_ORDERED_NODE_TYPE): the steps
\* of an absolute path from the document node, or //*[@id="v"]; XPath does not
\* enter a shadow root; an exception ('' does not parse) is caught
RECURSIVE xpathStep(_, _, _)
xpathStep(d, S, segs) ==
  IF segs = <<>> THEN S
  ELSE LET seg == Head(segs)
           next == {c \in TreeOf(d, 0) :
                      /\ d[c].parent \in S
                      /\ d[c].tag = seg.tag
                      /\ seg.index = 0 \/ TypeIndex(d, c) = seg.index}
       IN  xpathStep(d, next, Tail(segs))

evaluate(d, xpath) ==
  CASE xpath.kind = "id" ->
         FirstOrNull({n \in TreeOf(d, 0) : d[n].attributes["id"] = xpath.v})
    [] xpath.kind = "path" /\ xpath.segs # <<>> ->
         FirstOrNull(xpathStep(d, {0}, xpath.segs))
    [] OTHER -> Null

\* the strategies of findElement, in the order of the code
byShadowPath(d, s) ==
  IF s.hostPath # <<>> THEN findByShadowPath(d, s.hostPath, s.css) ELSE Null
byDeepCss(d, s) == deepQuerySelector(d, s.css, 0)
byXPath(d, s) == evaluate(d, s.xpath)
byId(d, s) ==
  IF s.attributes["id"] = <<>> THEN Null
  ELSE LET byDocument == getElementById(d, s.attributes["id"])
       IN  IF byDocument # Null THEN byDocument
           ELSE deepQuerySelector(d, Css("rawid", "", s.attributes["id"], <<>>), 0)
byAttribute(d, s, a) ==
  IF s.attributes[a] = <<>> THEN Null
  ELSE deepQuerySelector(d, Css(a, "", s.attributes[a], <<>>), 0)
\* Array.from(document.querySelectorAll(selector.tagName)): the first element
\* whose trimmed text is selector.text
byText(d, s) ==
  IF s.text = <<>> THEN Null
  ELSE FirstOrNull({el \in querySelectorAll(d, 0, Css("tag", s.tagName, <<>>, <<>>)) :
                      trim(textContent(d, el)) = s.text})

\* the first result of the sequence that is an element; null if there is none
RECURSIVE firstFound(_)
firstFound(results) ==
  IF results = <<>> THEN Null
  ELSE IF Head(results) # Null THEN Head(results)
  ELSE firstFound(Tail(results))

findElement(d, s) ==
  LET byPath == byShadowPath(d, s)
  IN  IF byPath = Thrown THEN Thrown
      ELSE firstFound(<<byPath, byDeepCss(d, s), byXPath(d, s), byId(d, s),
                        byAttribute(d, s, "name"), byAttribute(d, s, "placeholder"),
                        byAttribute(d, s, "aria-label"),
                        byAttribute(d, s, "data-testid"), byText(d, s)>>)
(***************************************************************************)
(* Specification ResolverSpec: the generator and the resolver applied to   *)
(* the elements of the documents above.  A selector is generated for an    *)
(* element of the page, the page may be rendered anew or replaced, and     *)
(* findElement resolves the selector in the page as it is then.            *)
(***************************************************************************)
Document == Documents[page]
NotRun == [ran |-> FALSE, element |-> Null]

\* the recorder makes the target of a step for element n (createStep)
Record(n) ==
  /\ selector' = generateShadowAwareSelector(Document, n)
  /\ origin' = [page |-> page, element |-> n]
  /\ found' = NotRun
  /\ UNCHANGED <<page, exec, events, response>>

\* generateElementSelector on its own, as the earlier recorder calls it
Generate(n) ==
  /\ selector' = generateElementSelector(Document, n)
  /\ origin' = [page |-> page, element |-> n]
  /\ found' = NotRun
  /\ UNCHANGED <<page, exec, events, response>>

\* a flow is imported whose step keeps the css of the selector and nothing
\* else; importFlow takes the steps as they are in the file
cssOnly(s) == ElementSelector(s.css, NoXPath, <<>>, s.tagName, NoAttributes, <<>>)
ImportCssOnly ==
  /\ selector # cssOnly(selector)
  /\ selector' = cssOnly(selector)
  /\ found' = NotRun
  /\ UNCHANGED <<page, origin, exec, events, response>>

\* the tab shows another document, or the same one rendered anew
Rerender(p) ==
  /\ p # page
  /\ page' = p
  /\ found' = NotRun
  /\ UNCHANGED <<selector, origin, exec, events, response>>

\* findElement(selector) in the page
Resolve ==
  /\ ~found.ran
  /\ found' = [ran |-> TRUE, element |-> findElement(Document, selector)]
  /\ UNCHANGED <<page, selector, origin, exec, events, response>>

ResolverNext ==
  \/ (\E n \in Nodes(Document) : Record(n)) /\ UNCHANGED exceptAgent
  \/ (\E n \in Nodes(Document) : Generate(n)) /\ UNCHANGED exceptAgent
  \/ ImportCssOnly /\ UNCHANGED exceptAgent
  \/ (\E p \in DocumentNames : Rerender(p)) /\ UNCHANGED exceptAgent
  \/ Resolve /\ UNCHANGED exceptAgent

ResolverInit ==
  /\ PlaybackIdle
  /\ RecorderLoaded([e \in {"e1", "e2"} |-> ""], [x |-> 0, y |-> 0])
  /\ RecordingIdle
  /\ StorageLoaded(<<>>)
  /\ \E p \in DocumentNames : AgentLoaded(p)

ResolverSpec == ResolverInit /\ [][ResolverNext]_vars

ResolverTypeOK ==
  /\ page \in DocumentNames
  /\ found.element \in {Thrown, Null} \cup Nodes(Document)
  /\ origin.element \in {Null} \cup Nodes(Documents[origin.page])

(***************************************************************************)
(* The strategies that only the resolver of utils/selectors.ts has (lines  *)
(* 204-244 and 342-363); its searches enter the shadow roots.              *)
(***************************************************************************)
RECURSIVE InOrderOf(_)
InOrderOf(S) == IF S = {} THEN <<>> ELSE <<First(S)>> \o InOrderOf(S \ {First(S)})

\* the matches of the root, then those of the shadow roots of its elements
RECURSIVE querySelectorAllDeep(_, _, _), allInHosts(_, _, _)
querySelectorAllDeep(d, root, css) ==
  InOrderOf(querySelectorAll(d, root, css)) \o allInHosts(d, css, HostsIn(d, root))
allInHosts(d, css, hosts) ==
  IF hosts = {} THEN <<>>
  ELSE querySelectorAllDeep(d, First(hosts), css) \o allInHosts(d, css, hosts \ {First(hosts)})

firstOrNull(elements) == IF elements = <<>> THEN Null ELSE Head(elements)

\* the first element of the tag, in the root or below it, whose trimmed text is the text
RECURSIVE findByTextDeep(_, _, _, _), textInHosts(_, _, _, _)
findByTextDeep(d, root, tagName, text) ==
  LET here == {el \in querySelectorAll(d, root, Css("tag", tagName, <<>>, <<>>)) :
                 trim(textContent(d, el)) = text}
  IN  IF here # {} THEN First(here) ELSE textInHosts(d, HostsIn(d, root), tagName, text)
textInHosts(d, hosts, tagName, text) ==
  IF hosts = {} THEN Null
  ELSE LET foundIn == findByTextDeep(d, First(hosts), tagName, text)
       IN  IF foundIn # Null THEN foundIn
           ELSE textInHosts(d, hosts \ {First(hosts)}, tagName, text)

byTextDeep(d, s) ==
  IF s.text = <<>> THEN Null ELSE findByTextDeep(d, 0, s.tagName, s.text)

byRoleAndText(d, s) ==
  IF s.attributes["role"] = <<>> \/ s.text = <<>> THEN Null
  ELSE LET IsIt(el) == trim(textContent(d, el)) = s.text
       IN  firstOrNull(SelectSeq(
             querySelectorAllDeep(d, 0, Css("role", "", s.attributes["role"], <<>>)), IsIt))

byApproximateText(d, s) ==
  IF s.text = <<>> THEN Null
  ELSE LET IsNear(el) ==
             LET elText == trim(textContent(d, el))
             IN  includes(elText, s.text) \/ includes(s.text, elText)
       IN  firstOrNull(SelectSeq(
             querySelectorAllDeep(d, 0, Css("tag", s.tagName, <<>>, <<>>)), IsNear))

\* the descent through the hosts as a strategy: an element, or no element
byHostChain(d, s) == LET el == byShadowPath(d, s) IN IF el > 0 THEN el ELSE Null

\* the eleven strategies in the order of the resolution order
elevenStrategies(d, s) ==
  <<byHostChain(d, s), byDeepCss(d, s), byXPath(d, s), byId(d, s),
    byAttribute(d, s, "name"), byAttribute(d, s, "placeholder"),
    byAttribute(d, s, "aria-label"), byAttribute(d, s, "data-testid"),
    byRoleAndText(d, s), byTextDeep(d, s), byApproximateText(d, s)>>

\* C22: findElement returns the element of the first of the eleven strategies
\* that succeeds (host-chain, deep CSS, XPath, identifier, name, placeholder,
\* aria-label, data-testid, role + exact text, exact text of the tag,
\* approximate text of the tag), and fails only if none of them yields an element.
C22_FirstOfEleven ==
  found.ran => found.element = firstFound(elevenStrategies(Document, selector))

\* what findElement goes on with after the descent through the hosts
afterHostChain(d, s) ==
  firstFound(<<byDeepCss(d, s), byXPath(d, s), byId(d, s), byAttribute(d, s, "name"),
               byAttribute(d, s, "placeholder"), byAttribute(d, s, "aria-label"),
               byAttribute(d, s, "data-testid"), byText(d, s)>>)

\* a hop of the host path is missing: the root has no element that is the
\* host, or the host has no shadow root
RECURSIVE HopMissing(_, _, _)
HopMissing(d, root, hosts) ==
  /\ hosts # <<>>
  /\ LET host == FirstOrNull({n \in TreeOf(d, root) : Matches(d, n, Head(hosts))})
     IN  \/ host = Null
         \/ ~shadowRoot(d, host)
         \/ HopMissing(d, host, Tail(hosts))

\* C23: when the selector carries a host path and a hop of it is missing, only
\* the host-path strategy fails: findElement returns what deep CSS and the
\* strategies after it yield.
C23_OnlyHostChainFails ==
  (found.ran /\ HopMissing(Document, 0, selector.hostPath)) =>
    found.element = afterHostChain(Document, selector)

OriginDocument == Documents[origin.page]
OriginInShadow == origin.element # Null /\ isInShadowDOM(OriginDocument, origin.element)

\* C25: for the selector of an element inside a shadow root of which only the
\* css is kept (no host path), the CSS strategy returns no element that is
\* inside a shadow root.
C25_CssStopsAtBoundary ==
  (/\ found.ran
   /\ OriginInShadow
   /\ selector = cssOnly(generateShadowAwareSelector(OriginDocument, origin.element)))
  => LET byCss == byDeepCss(Document, selector)
     IN  ~(byCss # Null /\ isInShadowDOM(Document, byCss))

\* findElement has resolved, in the page it was generated in, the selector
\* generateElementSelector made for the element of origin
RoundTrip ==
  /\ found.ran
  /\ origin.element # Null
  /\ origin.page = page
  /\ selector = generateElementSelector(Document, origin.element)

\* C26: for every element e that has an id, findElement(generateElementSelector(e))
\* returns e and no other element.
C26_RoundTripOnIdentified ==
  (RoundTrip /\ Document[origin.element].attributes["id"] # <<>>) =>
    found.element = origin.element

\* no other element of the page, in whatever tree, has the id of n
UniqueId(d, n) ==
  \A m \in Nodes(d) : d[m].attributes["id"] = d[n].attributes["id"] => m = n

\* C26, amended: the round trip holds for every element whose id has no colon
\* and is the id of no other element of the page.
C26_RoundTripOnUniquePlainId ==
  (/\ RoundTrip
   /\ HasPlainId(Document, origin.element)
   /\ UniqueId(Document, origin.element))
  => found.element = origin.element

\* the second button of its parent is found by its id
C26_Witness ==
  /\ RoundTrip
  /\ page = "bare"
  /\ origin.element = 5
  /\ HasPlainId(Document, 5) /\ UniqueId(Document, 5)
  /\ found.element = 5

\* C27: for every element of the document, the body and elements without id,
\* test id, name, aria-label, placeholder or classes included,
\* generateElementSelector returns a non-empty css and a non-empty xpath, a
\* text only if the trimmed text has 1 to 99 characters, and an attribute entry
\* only if the element carries the attribute.
C27_SelectorPopulated ==
  (/\ origin.element # Null
   /\ origin.page = page
   /\ selector = generateElementSelector(Document, origin.element))
  => /\ selector.css # NoCss
     /\ selector.xpath # NoXPath
     /\ selector.text # <<>> =>
          /\ selector.text = trim(textContent(Document, origin.element))
          /\ Len(selector.text) > 0 /\ Len(selector.text) < 100
     /\ \A a \in AttributeNames :
          selector.attributes[a] # <<>> =>
            selector.attributes[a] = Document[origin.element].attributes[a]

(***************************************************************************)
(* The step executor of the agent (content/player.ts lines 618-832),       *)
(* specification AgentSpec.  executeStep is async: each action below is    *)
(* one of its slices.  `events` lists what the call has done to the        *)
(* document; the page may be rendered anew while the call is suspended.    *)
(***************************************************************************)
\* findElementWithRetry(selector, maxAttempts = 10, intervalMs = 500)
maxAttempts == 10

Step(type, delay, target) == [type |-> type, delay |-> delay, target |-> target]

\* the payloads of EXECUTE_STEP: clicks and an input on recorded targets, a
\* scroll, and wait steps as the editor makes them (delay > 0) and as an
\* imported file may hold them (delay 0)
ExecutedSteps ==
  {Step("click", 0, generateShadowAwareSelector(Documents["plain"], 3)),
   Step("click", 0, generateShadowAwareSelector(Documents["shadow"], 4)),
   Step("click", 0, generateShadowAwareSelector(Documents["digit"], 4)),
   Step("input", 0, generateShadowAwareSelector(Documents["plain"], 4)),
   Step("scroll", 0, WaitTarget),
   Step("wait", 1000, WaitTarget),
   Step("wait", 0, WaitTarget)}

\* for (let i = 0; i < maxAttempts; i++): another attempt is made
attemptsLeft_oneMore(attempt) == attempt <= maxAttempts
attemptsLeft(attempt) == attempt < maxAttempts

\* what simulateClick does to the element, in order (lines 639-674)
simulateClick ==
  <<"scrollIntoView", "focus", "pointerdown", "mousedown", "mouseup", "click",
    "pointerup", "click()">>

\* el.querySelector('input, textarea'), then the same in el.shadowRoot
RECURSIVE IsWithin(_, _, _)
IsWithin(d, n, el) ==
  d[n].parent # 0 /\ (d[n].parent = el \/ IsWithin(d, d[n].parent, el))
editableOf(d, el) ==
  IF d[el].tag \in {"input", "textarea"} THEN el
  ELSE LET inside == {n \in Nodes(d) : d[n].tag \in {"input", "textarea"} /\ IsWithin(d, n, el)}
           below == {n \in TreeOf(d, el) : d[n].tag \in {"input", "textarea"}}
       IN  IF inside # {} THEN First(inside) ELSE FirstOrNull(below)

\* what simulateInput does (lines 676-729); the fallback to
\* document.activeElement finds no control
simulateInput(d, el) ==
  <<"scrollIntoView", "click()", "focus">> \o
  (IF editableOf(d, el) # Null THEN <<"focus", "input", "input", "change">> ELSE <<>>)

\* the switch of executeStep (lines 809-822); the steps of the model carry a value
simulate(d, type, el) ==
  CASE type = "click" -> simulateClick
    [] type = "input" -> simulateInput(d, el)
    [] OTHER -> <<>>

\* the state of the call after a slice, and what the call has then done
Call(pc, type, delay, attempt, element) ==
  [pc |-> pc, type |-> type, delay |-> delay, attempt |-> attempt, element |-> element]
Outcome(call, evs, result) == [exec |-> call, events |-> evs, response |-> result]
Ended(call) == [call EXCEPT !.pc = "idle"]

Becomes(outcome) ==
  /\ exec' = outcome.exec
  /\ events' = outcome.events
  /\ response' = outcome.response

\* one run of the loop body of findElementWithRetry: findElement, and on null
\* the 500 ms sleep.  An element goes back to executeStep, which awaits
\* waitForVisible; an exception leaves findElementWithRetry and executeStep.
attempt(d, s, call, evs) ==
  LET element == findElement(d, s)
      made == [call EXCEPT !.attempt = @ + 1, !.element = element]
  IN  IF element = Thrown THEN Outcome(Ended([made EXCEPT !.element = Null]), evs, "thrown")
      ELSE IF element = Null THEN Outcome([made EXCEPT !.pc = "retry"], evs, "none")
      ELSE Outcome([made EXCEPT !.pc = "visible"], evs, "none")

\* executeStep after the captcha check (lines 776-792): a wait step with a
\* delay sleeps, a scroll step (those of the model carry a position) scrolls,
\* every other step looks for its target
begin(d, s, call, evs) ==
  IF call.type = "wait" /\ call.delay # 0 THEN Outcome([call EXCEPT !.pc = "wait"], evs, "none")
  ELSE IF call.type = "scroll" THEN Outcome(Ended(call), Append(evs, "scrollTo"), "true")
  ELSE attempt(d, s, call, evs)

\* EXECUTE_STEP arrives; detected is what detectCaptcha finds in the page.
\* With a captcha the overlay is shown and the call waits for the user.
ExecuteStep(step, detected) ==
  /\ exec.pc = "idle"
  /\ selector' = step.target
  /\ LET call == Call("captcha", step.type, step.delay, 0, Null)
     IN  IF detected THEN Becomes(Outcome(call, <<"overlay">>, "none"))
         ELSE Becomes(begin(Document, step.target, call, <<>>))
  /\ UNCHANGED <<page, origin, found>>

\* the user has solved the captcha and the countdown is over: resolve(true)
CaptchaSolved ==
  /\ exec.pc = "captcha"
  /\ Becomes(begin(Document, selector, exec, Append(events, "overlay removed")))
  /\ UNCHANGED <<page, selector, origin, found>>

\* the user presses the stop button of the overlay: resolve(false), return false
CaptchaStopped ==
  /\ exec.pc = "captcha"
  /\ Becomes(Outcome(Ended(exec), Append(events, "overlay removed"), "false"))
  /\ UNCHANGED <<page, selector, origin, found>>

\* the timer of a wait step fires: return true
WaitElapsed ==
  /\ exec.pc = "wait"
  /\ Becomes(Outcome(Ended(exec), events, "true"))
  /\ UNCHANGED <<page, selector, origin, found>>

\* the 500 ms sleep of findElementWithRetry is over: the next attempt, or,
\* when the loop is over, null, on which executeStep returns false
RetryTimer ==
  /\ exec.pc = "retry"
  /\ IF attemptsLeft(exec.attempt)
       THEN Becomes(attempt(Document, selector, exec, events))
       ELSE Becomes(Outcome(Ended(exec), events, "false"))
  /\ UNCHANGED <<page, selector, origin, found>>

\* waitForVisible is over (visible or not, executeStep goes on): the outline
\* is set, the element scrolled into view, and the call sleeps 300 ms
VisibilityChecked ==
  /\ exec.pc = "visible"
  /\ Becomes(Outcome([exec EXCEPT !.pc = "settle"],
                     events \o <<"outline", "scrollIntoView">>, "none"))
  /\ UNCHANGED <<page, selector, origin, found>>

\* the 300 ms are over: the action of the step.  It runs to its end and
\* executeStep returns true, or something in it throws after k of its effects:
\* the catch removes the outline and returns false.  (The timer that removes
\* the outline 500 ms after a success touches the style of the element only.)
Simulated(k) ==
  /\ exec.pc = "settle"
  /\ LET effects == simulate(Document, exec.type, exec.element)
     IN  /\ k <= Len(effects)
         /\ IF k = Len(effects)
              THEN Becomes(Outcome(Ended(exec), events \o effects, "true"))
              ELSE Becomes(Outcome(Ended(exec),
                                   events \o SubSeq(effects, 1, k) \o <<"outline removed">>,
                                   "false"))
  /\ UNCHANGED <<page, selector, origin, found>>

\* the page is rendered anew while the call has no element in its hands
Rendered(p) ==
  /\ exec.pc \in {"idle", "captcha", "wait", "retry"}
  /\ Rerender(p)

MaxEffects == 8

AgentNext ==
  \/ (\E step \in ExecutedSteps, detected \in BOOLEAN : ExecuteStep(step, detected))
     /\ UNCHANGED exceptAgent
  \/ CaptchaSolved /\ UNCHANGED exceptAgent
  \/ CaptchaStopped /\ UNCHANGED exceptAgent
  \/ WaitElapsed /\ UNCHANGED exceptAgent
  \/ RetryTimer /\ UNCHANGED exceptAgent
  \/ VisibilityChecked /\ UNCHANGED exceptAgent
  \/ (\E k \in 0..MaxEffects : Simulated(k)) /\ UNCHANGED exceptAgent
  \/ (\E p \in DocumentNames : Rendered(p)) /\ UNCHANGED exceptAgent

AgentSpec == ResolverInit /\ [][AgentNext]_vars

\* the timers of the page fire.  The sleep of findElementWithRetry is pending
\* exactly while exec.pc = "retry" and its firing always changes exec, so the
\* second conjunct is WF_agentVars(RetryTimer) written out.
FairAgentSpec ==
  /\ AgentSpec
  /\ ([]<>(exec.pc # "retry") \/ []<><<RetryTimer>>_agentVars)
  /\ WF_agentVars(WaitElapsed)

AgentTypeOK ==
  /\ page \in DocumentNames
  /\ exec.pc \in {"idle", "captcha", "wait", "retry", "visible", "settle"}
  /\ exec.attempt \in 0..maxAttempts
  /\ exec.pc \in {"visible", "settle"} => exec.element \in Nodes(Document)
  /\ response \in {"none", "true", "false", "thrown"}
  /\ Len(events) <= MaxEffects + 4

\* findElementWithRetry is running: it sleeps between two attempts
Retrying == exec.pc = "retry"
\* findElementWithRetry has returned an element to executeStep
Resolved == exec.pc \in {"visible", "settle"}

\* C24: findElementWithRetry runs findElement at most maxAttempts (10) times
C24_AtMostMaxAttempts == exec.attempt <= maxAttempts

\* C24: the first attempt that finds an element ends the search with that
\* element: no attempt is made after it
C24_FirstSuccessReturns ==
  [][/\ (~Resolved /\ Resolved') =>
          /\ exec'.attempt = (IF Retrying THEN exec.attempt ELSE 0) + 1
          /\ exec'.element = findElement(Document, selector')
          /\ exec'.element \in Nodes(Document)
     /\ Resolved => exec'.attempt = exec.attempt]_vars

\* C24: it returns null, on which executeStep returns false without an event,
\* only after maxAttempts attempts, all of which found nothing
C24_FailsWhenExhausted ==
  [][/\ Retrying => exec.element = Null
     /\ (Retrying /\ exec'.pc = "idle" /\ response' = "false") =>
          exec.attempt = maxAttempts /\ exec'.attempt = maxAttempts]_vars

\* C24: findElementWithRetry runs the strategies at most maxAttempts times,
\* returns the element of the first attempt that succeeds, returns failure
\* only after maxAttempts failed attempts, and always terminates.
C24_RetryBoundedAndTerminates ==
  /\ []C24_AtMostMaxAttempts
  /\ C24_FirstSuccessReturns
  /\ C24_FailsWhenExhausted
  /\ Retrying ~> ~Retrying

\* ten attempts found nothing and the step was reported as failed
C24_Witness ==
  /\ exec.pc = "idle"
  /\ exec.type = "click"
  /\ exec.attempt = maxAttempts
  /\ exec.element = Null
  /\ response = "false"

\* the message handler of the content script: { success } of executeStep, and
\* { success: false, error } when executeStep throws
handled(result) == IF result = "true" THEN "ok" ELSE "fail"

\* an executeStep call has ended without success
StepFailed == exec.pc = "idle" /\ response \notin {"none", "true"}

\* C28: a step that fails, because no strategy finds its element or because
\* the simulation throws, makes executeStep return false, never throw, and the
\* controller does with it what it does with any { success: false }.
C28_FailureIsFalse ==
  StepFailed =>
    /\ response = "false"
    /\ \A stopOnError \in BOOLEAN :
         afterStep(handled(response), [DefaultOptions EXCEPT !.stopOnError = stopOnError])
           = afterStep("fail", [DefaultOptions EXCEPT !.stopOnError = stopOnError])

\* C29: a wait step is a pure delay: whatever its delay, 0 included,
\* executeStep looks for no element, does nothing to the document, and
\* reports success.
C29_WaitIsPureDelay ==
  exec.type = "wait" =>
    /\ exec.attempt = 0
    /\ events = <<>>
    /\ exec.pc = "idle" => response = "true"

\* the pointer and mouse events among what a call did
IsPointerOrMouse(e) ==
  e \in {"pointerover", "pointerenter", "pointerdown", "pointerup", "mouseover",
         "mouseenter", "mousedown", "mouseup", "click"}
RECURSIVE indexOf(_, _)
indexOf(s, e) == IF s = <<>> THEN 0 ELSE IF Head(s) = e THEN 1 ELSE
                   LET i == indexOf(Tail(s), e) IN IF i = 0 THEN 0 ELSE i + 1

\* C30: a click dispatches on the target pointerover, pointerenter,
\* pointerdown, mouseover, mouseenter, mousedown, mouseup, click and pointerup,
\* each once and in this order, and element.click() comes after them.
C30_ClickSequence ==
  (exec.type = "click" /\ exec.pc = "idle" /\ response = "true") =>
    /\ SelectSeq(events, IsPointerOrMouse) =
         <<"pointerover", "pointerenter", "pointerdown", "mouseover", "mouseenter",
           "mousedown", "mouseup", "click", "pointerup">>
    /\ indexOf(events, "click()") > indexOf(events, "pointerup")

(***************************************************************************)
(* C34.  In every reachable playback state isPaused implies isPlaying.     *)
(* Violated: PAUSE_PLAYBACK sets isPaused whatever isPlaying is.           *)
(***************************************************************************)
C34_PausedImpliesPlaying == playbackState.isPaused => playbackState.isPlaying

(***************************************************************************)
(* C35.  Every playback session returns to Idle: there is no reachable     *)
(* state in which isPlaying is true, the session is not paused, and no     *)
(* timer, in-flight step or listener is left to advance it.                *)
(* Violated: startPlayback sets isPlaying before it looks for the active   *)
(* tab, and without a tab registers nothing.                               *)
(***************************************************************************)
C35_PlayingCanAdvance ==
  (playbackState.isPlaying /\ ~playbackState.isPaused) => tasks # EmptyBag

\* the option keys whose value this step changes
ChangedOptions ==
  {k \in DOMAIN playbackState.options : playbackState'.options[k] # playbackState.options[k]}

\* this step is what SET_PLAYBACK_OPTIONS with the payload does, and no more
OnlySetsOptions(payload) ==
  /\ ChangedOptions \subseteq DOMAIN payload
  /\ \A k \in DOMAIN payload : playbackState'.options[k] = payload[k]
  /\ playbackState' = [playbackState EXCEPT !.options = playbackState'.options]
  /\ tasks' = tasks

(***************************************************************************)
(* C40.  Only SET_PLAYBACK_OPTIONS changes playbackState.options: every    *)
(* step that changes an option sets exactly the keys of one payload to the *)
(* payload's values and leaves the other options, isPlaying, isPaused,     *)
(* currentFlowId, currentStepIndex and the pending continuations alone.    *)
(***************************************************************************)
C40_OptionsFrame ==
  [][ChangedOptions # {} => \E payload \in OptionPayloads : OnlySetsOptions(payload)]_vars

\* a session plays a step with two options changed from their initial values
C40_Witness ==
  /\ playbackState.isPlaying
  /\ playbackState.currentStepIndex = 1
  /\ playbackState.options.speed = 2
  /\ ~playbackState.options.stopOnError
  /\ playbackState.options.highlightElements

(***************************************************************************)
(* Persistence (src/src/utils/storage.ts) and export / import              *)
(* (src/src/utils/export.ts, handleImport of the editor), specification    *)
(* StorageSpec.  A Flow is reduced to id, name, description, steps,        *)
(* createdAt, updatedAt; a RecordedStep to id, type, value.  An optional   *)
(* field without value holds Absent.  chrome.storage.local hands out and   *)
(* takes copies, so no two lists share a flow.                             *)
(***************************************************************************)
\* flows the storage may hold before a new one is made, calls pending at the
\* same time, ids one import draws
MaxFlows == 2
MaxCalls == 2
MaxDraws == 4

Absent == "undefined"

Flow(id, name, steps, createdAt, updatedAt) ==
  [id |-> id, name |-> name, description |-> Absent, steps |-> steps,
   createdAt |-> createdAt, updatedAt |-> updatedAt]
FlowStep(id, type, v) == [id |-> id, type |-> type, value |-> v]

\* flows.findIndex((f) => f.id === id), 1-based; 0 for -1
findIndex(flows, id) ==
  IF \E i \in 1..Len(flows) : flows[i].id = id
    THEN CHOOSE i \in 1..Len(flows) :
           flows[i].id = id /\ \A j \in 1..(i - 1) : flows[j].id # id
    ELSE 0

\* saveFlow between its two awaits: the list it writes, given the list read
saveFlow(flows, flow, t) ==
  LET existingIndex == findIndex(flows, flow.id)
  IN  IF existingIndex > 0
        THEN [flows EXCEPT ![existingIndex] = [flow EXCEPT !.updatedAt = t]]
        ELSE Append(flows, flow)

\* deleteFlow between its two awaits
deleteFlow(flows, flowId) == SelectSeq(flows, LAMBDA f : f.id # flowId)

(***************************************************************************)
(* JSON.  A parsed value carries what typeof and Array.isArray see.        *)
(***************************************************************************)
JUndefined == [shape |-> "undefined"]
JNull == [shape |-> "null"]
JString(s) == [shape |-> "string", s |-> s]
JNumber(n) == [shape |-> "number", n |-> n]
JObject(fields) == [shape |-> "object", fields |-> fields]
JArray(items) == [shape |-> "array", items |-> items]

\* obj[key]
get(v, key) ==
  IF v.shape = "object" /\ key \in DOMAIN v.fields THEN v.fields[key] ELSE JUndefined

\* !!v
truthy(v) ==
  CASE v.shape \in {"undefined", "null"} -> FALSE
    [] v.shape = "string" -> v.s # ""
    [] v.shape = "number" -> v.n # 0
    [] OTHER -> TRUE

\* typeof v === 'object', for a v that is not null
isObject(v) == v.shape \in {"object", "array"}

\* JSON.stringify followed by JSON.parse: a key whose value is undefined is
\* not written
OptionalKeys == {"description", "value"}
defined(r) == {k \in DOMAIN r : k \in OptionalKeys => r[k] # Absent}
jsonOfStep(step) ==
  JObject([k \in defined(step) |-> JString(step[k])])
jsonOfFlow(flow) ==
  JObject([k \in defined(flow) |->
            CASE k \in {"id", "name", "description"} -> JString(flow[k])
              [] k \in {"createdAt", "updatedAt"} -> JNumber(flow[k])
              [] OTHER -> JArray([i \in 1..Len(flow.steps) |-> jsonOfStep(flow.steps[i])])])

\* the object a parsed value is in the program
RECURSIVE valueOf(_)
valueOf(v) ==
  CASE v.shape = "string" -> v.s
    [] v.shape = "number" -> v.n
    [] v.shape = "object" -> [k \in DOMAIN v.fields |-> valueOf(v.fields[k])]
    [] v.shape = "array" -> [i \in 1..Len(v.items) |-> valueOf(v.items[i])]
    [] OTHER -> Absent

\* { ...base, ...over }
spread(base, over) ==
  [k \in DOMAIN base \cup DOMAIN over |-> IF k \in DOMAIN over THEN over[k] ELSE base[k]]

\* the own enumerable properties of an object; the arrays of this model are empty
properties(v) == IF v.shape = "object" THEN valueOf(v) ELSE <<>>

EXPORT_VERSION == "1.0.0"

\* exportFlow and exportAllFlows: the content of the file
exportFlow(flow, t) ==
  JObject([version |-> JString(EXPORT_VERSION), exportedAt |-> JNumber(t),
           flow |-> jsonOfFlow(flow)])
exportAllFlows(flows, t) ==
  JObject([version |-> JString(EXPORT_VERSION), exportedAt |-> JNumber(t),
           flows |-> JArray([i \in 1..Len(flows) |-> jsonOfFlow(flows[i])])])

\* what importFlow and validateAndPrepareFlow end with
Fulfilled(flows) == [ok |-> TRUE, flows |-> flows, error |-> ""]
Rejected(error) == [ok |-> FALSE, flows |-> <<>>, error |-> error]

\* validateAndPrepareFlow; draws are the values Math.random() takes, in order
validateAndPrepareFlow(flow, t, draws) ==
  IF ~truthy(flow) \/ ~isObject(flow) THEN Rejected("Invalid flow data")
  ELSE IF \/ ~truthy(get(flow, "name"))
          \/ ~truthy(get(flow, "steps"))
          \/ get(flow, "steps").shape # "array"
    THEN Rejected("Invalid flow structure")
  ELSE LET steps == get(flow, "steps").items
           newFlowId == generateId(t, draws[1])
           newSteps == [i \in 1..Len(steps) |->
                          spread(properties(steps[i]), [id |-> generateId(t, draws[i + 1])])]
       IN  IF \E i \in 1..Len(steps) : ~truthy(steps[i]) \/ ~isObject(steps[i])
             THEN Rejected("Invalid step data")
             ELSE Fulfilled(<<spread(properties(flow),
                                    [id |-> newFlowId, steps |-> newSteps,
                                     createdAt |-> t, updatedAt |-> t])>>)

\* data.flows.map(validateAndPrepareFlow): the first exception ends it
RECURSIVE mapValidate(_, _, _)
mapValidate(items, t, draws) ==
  IF items = <<>> THEN Fulfilled(<<>>)
  ELSE LET first == validateAndPrepareFlow(Head(items), t, draws)
           used == IF get(Head(items), "steps").shape = "array"
                     THEN 1 + Len(get(Head(items), "steps").items) ELSE 1
           rest == mapValidate(Tail(items), t, SubSeq(draws, used + 1, Len(draws)))
       IN  IF ~first.ok THEN first
           ELSE IF ~rest.ok THEN rest
           ELSE Fulfilled(first.flows \o rest.flows)

\* importFlow, from the parsed content of the file
importFlow(data, t, draws) ==
  IF ~truthy(get(data, "version")) THEN Rejected("Invalid file format: missing version")
  ELSE IF truthy(get(data, "flow")) THEN validateAndPrepareFlow(get(data, "flow"), t, draws)
  ELSE IF truthy(get(data, "flows")) /\ get(data, "flows").shape = "array"
    THEN mapValidate(get(data, "flows").items, t, draws)
  ELSE Rejected("Invalid file format: no flow data found")

(***************************************************************************)
(* The files a user may pick that no export wrote.                         *)
(***************************************************************************)
fileStep == JObject([id |-> JString(generateId(0, 1)), type |-> JString("click")])
fileFlow(steps) ==
  JObject([id |-> JString(generateId(0, 1)), name |-> JString("a"), steps |-> steps,
           createdAt |-> JNumber(0), updatedAt |-> JNumber(0)])
versioned(fields) == JObject(spread([version |-> JString(EXPORT_VERSION)], fields))

HandMadeFiles ==
  {JObject([flow |-> fileFlow(JArray(<<fileStep>>))]),
   versioned(<<>>),
   versioned([flow |-> JString("x")]),
   versioned([flow |-> JObject([name |-> JString("a")])]),
   versioned([flow |-> fileFlow(JString("x"))]),
   versioned([flow |-> fileFlow(JArray(<<JString("x")>>))]),
   versioned([flow |-> fileFlow(JArray(<<fileStep, JNull>>))]),
   versioned([flows |-> JArray(<<fileFlow(JArray(<<fileStep>>)),
                                 JObject([name |-> JString("b")])>>)]),
   versioned([flow |-> fileFlow(JArray(<<JArray(<<>>)>>))]),
   versioned([flow |-> fileFlow(JArray(<<JObject([value |-> JString("x")])>>))])}

(***************************************************************************)
(* Calls of saveFlow and deleteFlow.  pc is the await the call is at:      *)
(* read (getFlows) or write (saveFlows).  next is the list the call       *)
(* writes; by is who called.                                               *)
(***************************************************************************)
StorageCall(op, flow, id, by) ==
  [op |-> op, flow |-> flow, id |-> id, by |-> by, pc |-> "read", next |-> <<>>]
SaveCall(flow, by) == StorageCall("save", <<flow>>, flow.id, by)
DeleteCall(flowId) == StorageCall("delete", <<>>, flowId, "editor")

twoSteps ==
  <<FlowStep(generateId(0, 1), "click", Absent), FlowStep(generateId(0, 2), "input", "x")>>

\* the flow stopRecording builds, its id generated when the recording started
NewFlows ==
  {Flow(generateId(0, 1), "a", twoSteps, time, time),
   Flow(generateId(0, 2), "a", <<>>, time, time)}

\* the flow handleNameChange saves: a flow the editor holds, renamed
RenamedFlows ==
  {[storage[i] EXCEPT !.name = name] : i \in 1..Len(storage), name \in {"a", ""}}

\* saveFlow(flow) up to `await getFlows()`
SaveFlowCalled(flow) ==
  /\ BagCardinality(calls) < MaxCalls
  /\ calls' = calls (+) SetToBag({SaveCall(flow, "editor")})
  /\ UNCHANGED <<storage, time, log, importing>>

\* deleteFlow(flowId) up to `await getFlows()`
DeleteFlowCalled(flowId) ==
  /\ BagCardinality(calls) < MaxCalls
  /\ calls' = calls (+) SetToBag({DeleteCall(flowId)})
  /\ UNCHANGED <<storage, time, log, importing>>

\* getFlows resolves: the call computes its list and awaits saveFlows
FlowsRead(c) ==
  /\ c.pc = "read"
  /\ calls' = Swapped(calls, c,
       [c EXCEPT !.pc = "write",
                 !.next = IF c.op = "save" THEN saveFlow(storage, c.flow[1], time)
                          ELSE deleteFlow(storage, c.id)])
  /\ UNCHANGED <<storage, time, log, importing>>

\* handleImport after an `await saveFlow(flow)`: the next flow of the bundle,
\* or the end
importContinues(imp, cs) ==
  IF imp.flows = <<>>
    THEN [imp |-> [imp EXCEPT !.pc = "done", !.result = "ok"], calls |-> cs]
    ELSE [imp |-> [imp EXCEPT !.flows = Tail(@), !.saves = @ + 1],
          calls |-> cs (+) SetToBag({SaveCall(Head(imp.flows), "import")})]

\* chrome.storage.local.set resolves: the call returns to its caller
FlowsWritten(c) ==
  /\ c.pc = "write"
  /\ storage' = c.next
  /\ log' = [log EXCEPT ![c.id] = IF c.op = "save" THEN "saved" ELSE "deleted"]
  /\ LET after == IF c.by = "import" THEN importContinues(importing, Dropped(calls, c))
                  ELSE [imp |-> importing, calls |-> Dropped(calls, c)]
     IN  importing' = after.imp /\ calls' = after.calls
  /\ UNCHANGED time

\* the calls of generateId an import of the file makes when nothing throws
RECURSIVE idsIn(_)
idsIn(items) ==
  IF items = <<>> THEN 0
  ELSE 1 + idsIn(Tail(items))
         + (IF get(Head(items), "steps").shape = "array"
              THEN Len(get(Head(items), "steps").items) ELSE 0)
idsNeeded(data) ==
  IF truthy(get(data, "flow")) THEN idsIn(<<get(data, "flow")>>)
  ELSE IF get(data, "flows").shape = "array" THEN idsIn(get(data, "flows").items)
  ELSE 0

\* the user picks a file in the dialog of handleImport: importFlow, and the
\* first saveFlow.  exported are the flows the file was exported from.  The
\* editor imports one file while it is open.
FilePicked(data, exported, draws) ==
  /\ importing.pc = "idle"
  /\ BagCardinality(calls) < MaxCalls
  /\ idsNeeded(data) <= MaxDraws
  /\ Len(storage) + Len(importFlow(data, time, draws).flows) <= MaxFlows + 1
  /\ LET imported == importFlow(data, time, draws)
         begun == [pc |-> "saving", file |-> data, source |-> exported, at |-> time,
                   before |-> storage, result |-> "none",
                   flows |-> imported.flows, made |-> imported.flows, saves |-> 0]
     IN  IF ~imported.ok
           THEN /\ importing' = [begun EXCEPT !.pc = "done", !.result = "failed"]
                /\ UNCHANGED calls
           ELSE LET after == importContinues(begun, calls)
                IN  importing' = after.imp /\ calls' = after.calls
  /\ UNCHANGED <<storage, time, log>>

\* the user exports a stored flow, or all of them, and imports the file
ImportExported(draws) ==
  \/ \E i \in 1..Len(storage) :
       FilePicked(exportFlow(storage[i], time), <<storage[i]>>, draws)
  \/ FilePicked(exportAllFlows(storage, time), storage, draws)

\* a millisecond passes
Millisecond ==
  /\ time < MaxTime
  /\ time' = time + 1
  /\ UNCHANGED <<storage, calls, log, importing>>

\* Math.random() is taken not to repeat a value within one import
Draws == {draws \in [1..MaxDraws -> Randoms] : \A i, j \in 1..MaxDraws : i # j => draws[i] # draws[j]}

StorageNext ==
  \/ (\E flow \in NewFlows \cup RenamedFlows : SaveFlowCalled(flow)) /\ UNCHANGED exceptStorage
  \/ (\E i \in 1..Len(storage) : DeleteFlowCalled(storage[i].id)) /\ UNCHANGED exceptStorage
  \/ (\E c \in BagToSet(calls) : FlowsRead(c)) /\ UNCHANGED exceptStorage
  \/ (\E c \in BagToSet(calls) : FlowsWritten(c)) /\ UNCHANGED exceptStorage
  \/ Millisecond /\ UNCHANGED exceptStorage

StorageInit ==
  /\ PlaybackIdle
  /\ RecorderLoaded([e \in {"e1", "e2"} |-> ""], [x |-> 0, y |-> 0])
  /\ RecordingIdle
  /\ AgentLoaded("plain")
  /\ StorageLoaded(<<>>)

\* the editor and the service worker save and delete flows
StorageSpec == StorageInit /\ [][StorageNext]_vars

\* what the storage may hold when the editor is opened: flows recorded
\* earlier, one of them renamed to the empty name or not
Earlier == 0 - 1
earlierSteps ==
  <<FlowStep(generateId(Earlier, 1), "click", Absent),
    FlowStep(generateId(Earlier, 2), "input", "x")>>
StoredLists ==
  {<<>>} \cup
  {<<Flow(generateId(Earlier, 1), name, earlierSteps, Earlier, Earlier)>> : name \in {"a", ""}} \cup
  {<<Flow(generateId(Earlier, 1), name, earlierSteps, Earlier, Earlier),
     Flow(generateId(Earlier, 2), "a", <<>>, Earlier, Earlier)>> : name \in {"a", ""}}

ImportNext ==
  \/ (\E data \in HandMadeFiles, draws \in Draws : FilePicked(data, <<>>, draws))
     /\ UNCHANGED exceptStorage
  \/ (\E draws \in Draws : ImportExported(draws)) /\ UNCHANGED exceptStorage
  \/ (\E c \in BagToSet(calls) : FlowsRead(c)) /\ UNCHANGED exceptStorage
  \/ (\E c \in BagToSet(calls) : FlowsWritten(c)) /\ UNCHANGED exceptStorage
  \/ Millisecond /\ UNCHANGED exceptStorage

ImportInit ==
  /\ PlaybackIdle
  /\ RecorderLoaded([e \in {"e1", "e2"} |-> ""], [x |-> 0, y |-> 0])
  /\ RecordingIdle
  /\ AgentLoaded("plain")
  /\ \E fs \in StoredLists : StorageLoaded(fs)

\* the user of the editor exports and imports files
ImportSpec == ImportInit /\ [][ImportNext]_vars

StorageTypeOK ==
  /\ time \in Times
  /\ BagCardinality(calls) <= MaxCalls
  /\ \A i \in 1..Len(storage) : storage[i].id[2] \in Randoms
  /\ importing.pc \in {"idle", "saving", "done"}
  /\ importing.result \in {"none", "ok", "failed"}

(***************************************************************************)
(* Vocabulary of the properties of the storage and of the import.          *)
(***************************************************************************)
\* what a step holds besides its id
content(step) == [k \in defined(step) \ {"id"} |-> step[k]]

\* the ids of the flows and of their steps, in order
RECURSIVE idsOf(_)
idsOf(flows) ==
  IF flows = <<>> THEN <<>>
  ELSE <<Head(flows).id>> \o [i \in 1..Len(Head(flows).steps) |-> Head(flows).steps[i].id]
         \o idsOf(Tail(flows))

PairwiseDistinct(s) == \A i, j \in 1..Len(s) : i # j => s[i] # s[j]

\* an import of a file that an export wrote has run importFlow
ExportImported == importing.pc # "idle" /\ importing.source # <<>>

(***************************************************************************)
(* C31.  Export then import round-trips a flow: the import succeeds, the   *)
(* imported flow has the name of the exported one and its steps, equal up  *)
(* to their ids and in the same order; the ids of the flow and of its      *)
(* steps are new, different from the exported ones and pairwise distinct;  *)
(* createdAt and updatedAt are the time of the import.                     *)
(* Violated: a flow renamed to the empty name is exported and then         *)
(* rejected by `!f.name`.                                                  *)
(***************************************************************************)
C31_ExportImportRoundTrip ==
  ExportImported =>
    /\ importing.result # "failed"
    /\ Len(importing.made) = Len(importing.source)
    /\ \A i \in 1..Len(importing.made) :
         LET made == importing.made[i]
             exported == importing.source[i]
         IN  /\ made.name = exported.name
             /\ Len(made.steps) = Len(exported.steps)
             /\ \A j \in 1..Len(made.steps) : content(made.steps[j]) = content(exported.steps[j])
             /\ made.createdAt = importing.at
             /\ made.updatedAt = importing.at
    /\ PairwiseDistinct(idsOf(importing.made))
    /\ Range(idsOf(importing.made)) \cap Range(idsOf(importing.source)) = {}

(***************************************************************************)
(* The data model of types/index.ts, on parsed values.                     *)
(***************************************************************************)
has(v, key, shape) == get(v, key).shape = shape
IsRecordedStep(v) == v.shape = "object" /\ has(v, "id", "string") /\ has(v, "type", "string")
IsFlow(v) ==
  /\ v.shape = "object"
  /\ has(v, "name", "string")
  /\ has(v, "steps", "array")
  /\ \A i \in 1..Len(get(v, "steps").items) : IsRecordedStep(get(v, "steps").items[i])
\* ExportedFlow or ExportedFlowBundle
IsExport(v) ==
  /\ has(v, "version", "string")
  /\ \/ IsFlow(get(v, "flow"))
     \/ /\ has(v, "flows", "array")
        /\ \A i \in 1..Len(get(v, "flows").items) : IsFlow(get(v, "flows").items[i])

\* a file that is no export has been picked
MalformedPicked == importing.pc # "idle" /\ ~IsExport(importing.file)

(***************************************************************************)
(* C32.  Malformed import data is rejected before any mutation of the      *)
(* persisted state: an import of a file without version, with neither flow *)
(* nor flows, or with a flow or a step that is not one, ends with an error,*)
(* calls saveFlow not once and leaves the stored flows as they were.       *)
(* Violated: validateAndPrepareFlow takes every non-null object as a step. *)
(***************************************************************************)
C32_MalformedRejected ==
  MalformedPicked =>
    /\ importing.result = "failed"
    /\ importing.saves = 0
    /\ storage = importing.before

\* the flow is in the list once, as given but for updatedAt = t, and the other
\* flows of the list read are in it as they were, in their order
Upserted(flows, flow, t, next) ==
  /\ Cardinality({i \in 1..Len(next) : next[i].id = flow.id}) = 1
  /\ \A i \in 1..Len(next) : next[i].id = flow.id => next[i] = [flow EXCEPT !.updatedAt = t]
  /\ SelectSeq(next, LAMBDA f : f.id # flow.id) = SelectSeq(flows, LAMBDA f : f.id # flow.id)

\* c is a saveFlow that this step takes from getFlows to saveFlows
ComputesList(c) ==
  c.op = "save" /\ c.pc = "write" /\ CopiesIn(c, calls') > CopiesIn(c, calls)

C33_Upserts ==
  [][\A c \in BagToSet(calls') :
       ComputesList(c) => Upserted(storage, c.flow[1], time, c.next)]_vars

C33_DistinctIds == PairwiseDistinct([i \in 1..Len(storage) |-> storage[i].id])

(***************************************************************************)
(* C33.  saveFlow upserts by id and stamps updatedAt: the list saveFlow(f) *)
(* writes holds exactly one flow with f's id, f with updatedAt set to the  *)
(* time of the save, on insert as on update, and the other flows it read   *)
(* unchanged and in order; the ids of the stored flows stay pairwise       *)
(* distinct under saveFlow and deleteFlow.                                 *)
(* Violated: the insert branch pushes the flow as it was given.            *)
(***************************************************************************)
C33_SaveFlowUpserts == C33_Upserts /\ []C33_DistinctIds

(***************************************************************************)
(* C38.  No update of the storage is lost: once the overlapping calls of   *)
(* saveFlow and deleteFlow have returned, a flow whose last call was a     *)
(* saveFlow is stored and one whose last call was a deleteFlow is not.     *)
(* Violated: each call writes back the list it read.                       *)
(***************************************************************************)
C38_NoLostUpdate ==
  calls = EmptyBag =>
    \A id \in Ids :
      /\ log[id] = "saved" => \E i \in 1..Len(storage) : storage[i].id = id
      /\ log[id] = "deleted" => \A i \in 1..Len(storage) : storage[i].id # id

\* a text entry on e whose step the capturer has not emitted yet: the debounce
\* timer of e is pending, and the value is one that a flush would record too
AwaitsStep(e) == CopiesIn(e, timers) > 0 /\ value[e] # ""

\* this step emits the step of a click, which handleClick does at the click
ClickEmitted ==
  /\ Len(recorded') = Len(recorded) + 1
  /\ recorded'[Len(recorded')].type = "click"

(***************************************************************************)
(* C36.  The capturer emits the steps in the order of the interactions:    *)
(* when the step of a click is emitted, the step of every interaction made *)
(* before the click has been emitted, a text entry made less than 500 ms   *)
(* earlier included.                                                       *)
(* Violated: the step of a text entry waits for its debounce timer, and    *)
(* handleClick and handleKeydown emit theirs at once without flushing it.  *)
(***************************************************************************)
C36_EmittedInOrder ==
  [][ClickEmitted => \A e \in Controls : ~AwaitsStep(e)]_vars

\* the flows stopRecording has built and handed to saveFlow
HandedToSaveFlow == {t \in BagToSet(bgTasks) : t.pc \in {"stop_get", "stop_set"}}

(***************************************************************************)
(* C37.  A recording session results in one saved flow, which has the      *)
(* non-null id of the session: every flow stopRecording hands to saveFlow, *)
(* and every flow written, carries the id of a session, also when two      *)
(* stopRecording calls overlap at their awaits.                            *)
(* Violated: the second call passed the isRecording check before the first *)
(* reset the accumulator, and builds its flow from the reset accumulator.  *)
(***************************************************************************)
C37_OneFlowPerSession ==
  /\ \A t \in HandedToSaveFlow : t.id # NoFlow
  /\ savedFlow.written => savedFlow.id # NoFlow

\* this step is the reset that ends stopRecording
SessionCloses == recordingState.isRecording /\ ~recordingState'.isRecording

(***************************************************************************)
(* C39.  Every step of the page agent that the background took into the    *)
(* session is in the flow it saves for the session, whatever the order in  *)
(* which the RECORD_STEP messages and the answer to STOP_RECORDING arrive: *)
(* when stopRecording resets the accumulator, the flow written holds the   *)
(* steps the accumulator holds.                                            *)
(* Violated: a RECORD_STEP that arrives after chrome.storage.local.set was *)
(* called and before the reset is pushed and then thrown away.             *)
(***************************************************************************)
C39_SavedFlowHoldsSteps ==
  [][SessionCloses => (savedFlow.written /\ savedFlow.steps = recordingState.steps)]_vars

====
